---- MODULE Spec2Model ----
(***************************************************************************)
(* Model of operator-plugin-framework.                                     *)
(*                                                                         *)
(* Part A: server.StreamManager (src/stream/plugin_helpers.go), the        *)
(* host-side connection registry and admission control.  Every             *)
(* HandlePluginStream invocation is a goroutine; each action is one        *)
(* critical section of sm.mu or one callback invocation.                   *)
(*                                                                         *)
(* Part B: stream.StreamManager and stream.PluginStreamClient              *)
(* (src/stream/manager.go), the request/response correlation layer and     *)
(* the plugin-side dispatcher, connected by two FIFO message queues.       *)
(*                                                                         *)
(* Part C: how a stream is opened: the service entry point PluginStream    *)
(* (src/server/service.go) in front of HandlePluginStream, and the         *)
(* construction of the two ends of the stream of Part B, client.New with   *)
(* NewPluginStreamClient on the plugin and stream.NewStreamManager on the  *)
(* host.                                                                   *)
(*                                                                         *)
(* Part D: the timestamps of the attached streams and                      *)
(* UpdateLastMessageTime (src/stream/plugin_helpers.go).                   *)
(*                                                                         *)
(* Part E: handleRPCCall (src/stream/manager.go) as a function of the      *)
(* RpcCall it is given: method resolution, decoding, error codes.          *)
(*                                                                         *)
(* Part F: BidiStreamAdapter (src/stream/adapter.go) over a transport of   *)
(* carriers, with the envelopes serialized as length-delimited fields.     *)
(*                                                                         *)
(* Part G: the reads of the connection table of Part A.                    *)
(*                                                                         *)
(* Part H: registry.Manager (src/registry/manager.go).                     *)
(*                                                                         *)
(* Part I: server.Server (src/server/server.go): Start, its Serve          *)
(* goroutine, Stop and parseAddr.                                          *)
(*                                                                         *)
(* Part J: client.PluginStreamAdapter.Run                                  *)
(* (src/client/plugin_stream_adapter.go).                                  *)
(***************************************************************************)
EXTENDS Integers, Sequences, FiniteSets, TLC

(***************************************************************************)
(* Bounds of the model.                                                    *)
(***************************************************************************)
\* number of HandlePluginStream invocations
NumStreams == 3
\* the value server.maxConnections is configured to (WithMaxConnections)
MaxConnections == 2

StreamCalls == 1..NumStreams
\* the plugin names streams register under
NameList == <<"p0", "p1", "p2">>
PluginNames == {NameList[i] : i \in 1..Len(NameList)}

ErrNone == "nil"
ErrMaxConnectionsReached == "max plugin connections reached"
ErrConnectHandler == "connect handler error"
ErrContext == "context canceled"

VARIABLES
    activeStreams,    \* sm.activeStreams: plugin name -> id of its ManagedStream
    closeCount,       \* per ManagedStream: how often close(ms.closeCh) ran
    hpc,              \* per HandlePluginStream call: position in the function
    hname,            \* per call: the pluginName argument
    hctxDone,         \* per call: whether ctx.Done() is closed
    hret,             \* per call: the returned error
    connectCalls,     \* per call: OnPluginConnect invocations
    connectResult,    \* per call: what OnPluginConnect returned
    disconnectCalls,  \* per call: OnPluginDisconnect invocations
    everFull,         \* history: the table has held maxConnections entries
    hsawFull          \* history, per call: everFull when its capacity check ran

VARIABLES
    now,              \* the reading of time.Now().UnixNano()
    cpc,              \* per CallRPC invocation: position in CallRPC/waitForResponse
    cmethod,          \* per invocation: the method argument
    cpayload,         \* per invocation: the marshalled request (reqBytes)
    creqId,           \* per invocation: requestID
    cctxDone,         \* per invocation: whether ctx.Done() is closed
    cret,             \* per invocation: the returned (payload, error)
    cfrom,            \* history, per invocation: the envelope its result came from
    respChan,         \* per invocation: respChan, a channel of capacity 1
    pendingCalls,     \* sm.pendingCalls: request ID -> channel (named by its invocation)
    toPlugin,         \* the stream, host to plugin: envelopes in flight
    toHost,           \* the stream, plugin to host: envelopes in flight
    streamFailed,     \* the transport has failed
    lpc,              \* ListenForMessages: position in its loop
    lmsg,             \* ListenForMessages: the envelope being handled
    lchan,            \* handleResponse: the channel it looked up
    lctxDone,         \* ListenForMessages: whether its ctx.Done() is closed
    lret,             \* ListenForMessages: the returned error
    ppc,              \* HandleRPCCalls: position in its loop
    pctxDone,         \* HandleRPCCalls: whether its ctx.Done() is closed
    task              \* per received RpcCall: the goroutine running handleRPCCall

VARIABLES
    spc,              \* per PluginStream invocation: position in the function
    sfirst,           \* per invocation: what its first stream.Recv() returned
    scall,            \* per invocation: its HandlePluginStream call (0: none)
    sret              \* per invocation: the returned status

VARIABLES
    peer,             \* who opened the stream of Part B towards the host
    newRet,           \* client.New: the returned error
    pscBuilt,         \* client.New returned a Client (a PluginStreamClient)
    conn,             \* client.New: the gRPC connection
    creatorCalls,     \* client.New: invocations of streamCreator
    registerSends,    \* NewPluginStreamClient: Register envelopes written
    smBuilt,          \* stream.NewStreamManager returned a manager
    smErr,            \* stream.NewStreamManager: the returned error
    smFirst,          \* history: the first message the host received
    smPlugin          \* sm.pluginName and sm.pluginVer

VARIABLES
    createdAt,        \* per ManagedStream: ms.createdAt (0: not created; while
                      \* the stream is being built: the clock at the check)
    lastMessage,      \* per ManagedStream: ms.lastMessage (0: not created)
    rclock,           \* the reading of time.Now() in the stream manager
    touchName         \* history: the argument of the last UpdateLastMessageTime

VARIABLES
    dcall,            \* the RpcCall handed to handleRPCCall
    dsent             \* the envelope handleRPCCall wrote for it

VARIABLES
    adSent,           \* history: what each write to the transport carries
    adWire,           \* the underlying transport: carriers written, not yet read
    adRecvd,          \* history: what each BidiStreamAdapter.Recv returned
    adUnwraps,        \* calls of bsa.unwrapMessage
    adFailed          \* the underlying transport has failed

svars == <<spc, sfirst, scall, sret>>

tvars == <<createdAt, lastMessage, rclock, touchName>>

dvars == <<dcall, dsent>>

bvars == <<adSent, adWire, adRecvd, adUnwraps, adFailed>>

VARIABLES
    ext               \* by name: the objects next to the stream manager once
                      \* they are built ("reads", "manager", "server", "run"),
                      \* the frame of client.New while it runs ("new"), and
                      \* the plugin's stream once it was half-closed
                      \* ("pstream")

xvars == <<ext>>

kvars == <<peer, newRet, pscBuilt, conn, creatorCalls, registerSends,
           smBuilt, smErr, smFirst, smPlugin>>

rvars == <<now, cpc, cmethod, cpayload, creqId, cctxDone, cret, cfrom, respChan,
           pendingCalls, toPlugin, toHost, streamFailed, lpc, lmsg, lchan,
           lctxDone, lret, ppc, pctxDone, task>>

avars == <<activeStreams, closeCount, hpc, hname, hctxDone, hret,
           connectCalls, connectResult, disconnectCalls, everFull, hsawFull>>

(***************************************************************************)
(* The objects and the call frames kept in ext.                            *)
(***************************************************************************)
\* the object stored under a name, or the given state when it is not built
Object(name, unbuilt) == IF name \in DOMAIN ext THEN ext[name] ELSE unbuilt

\* ext with the object stored under the name
Store(name, obj) ==
    [k \in (DOMAIN ext) \cup {name} |-> IF k = name THEN obj ELSE ext[k]]

\* ext without the name: a call has returned and its frame is gone
Drop(name) == [k \in (DOMAIN ext) \ {name} |-> ext[k]]

\* nothing of Parts A to F is touched
ExtFrame == UNCHANGED <<avars, rvars, svars, kvars, tvars, dvars, bvars>>

(***************************************************************************)
(* Pure helpers over the activeStreams map.                                *)
(***************************************************************************)
\* len(sm.activeStreams)
ConnectionCount(streams) == Cardinality(DOMAIN streams)

\* names := keys of sm.activeStreams
ListConnectedPlugins(streams) == DOMAIN streams

\* _, exists := sm.activeStreams[pluginName]
IsPluginConnected(streams, name) == name \in DOMAIN streams

\* the capacity test of HandlePluginStream
CapacityReachedOffByOne(streams) == ConnectionCount(streams) > MaxConnections
CapacityReachedEarly(streams) == ConnectionCount(streams) + 1 >= MaxConnections
CapacityReached(streams) == ConnectionCount(streams) >= MaxConnections

\* sm.activeStreams[pluginName] = ms
registerStream(streams, name, ms) ==
    [n \in (DOMAIN streams) \cup {name} |-> IF n = name THEN ms ELSE streams[n]]

\* unregisterPlugin: close and delete the entry found under the name, if any
unregisterPluginKeepsEntry(streams, closed, name) ==
    [streams |-> streams, closed |-> closed]
unregisterPlugin(streams, closed, name) ==
    IF name \in DOMAIN streams
    THEN [streams |-> [n \in (DOMAIN streams) \ {name} |-> streams[n]],
          closed  |-> [closed EXCEPT ![streams[name]] = @ + 1]]
    ELSE [streams |-> streams, closed |-> closed]

(***************************************************************************)
(* Part A: state after NewStreamManager.                                   *)
(***************************************************************************)
InitAdmission ==
    /\ activeStreams = << >>
    /\ closeCount = [c \in StreamCalls |-> 0]
    /\ hpc = [c \in StreamCalls |-> "idle"]
    /\ hname = [c \in StreamCalls |-> "p0"]
    /\ hctxDone = [c \in StreamCalls |-> FALSE]
    /\ hret = [c \in StreamCalls |-> ErrNone]
    /\ connectCalls = [c \in StreamCalls |-> 0]
    /\ connectResult = [c \in StreamCalls |-> "none"]
    /\ disconnectCalls = [c \in StreamCalls |-> 0]
    /\ everFull = FALSE
    /\ hsawFull = [c \in StreamCalls |-> FALSE]

\* The names a new invocation may carry: one already used, or the first
\* unused one (names are interchangeable, so unused ones are taken in order).
UsedNames == {hname[c] : c \in {d \in StreamCalls : hpc[d] # "idle"}}
FreshNames == {NameList[i] : i \in {j \in 1..Len(NameList) :
                   /\ NameList[j] \notin UsedNames
                   /\ \A k \in 1..(j - 1) : NameList[k] \in UsedNames}}

\* The context of a call is cancelled (or its transport fails).
\* HandlePluginStream reads ctx only at <-ctx.Done(), where an earlier
\* cancellation is observed too, so the cancellation is placed at the wait.
CancelContext(c) ==
    /\ hpc[c] = "wait"
    /\ ~hctxDone[c]
    /\ hctxDone' = [hctxDone EXCEPT ![c] = TRUE]
    /\ UNCHANGED <<activeStreams, closeCount, hpc, hname, hret,
                   connectCalls, connectResult, disconnectCalls, everFull, hsawFull>>
    /\ UNCHANGED <<rvars, svars, kvars, tvars, dvars, bvars, xvars>>

\* A goroutine enters HandlePluginStream(ctx, name) and runs the first
\* critical section, the capacity check.  Invocations are interchangeable,
\* so they are numbered in the order they begin.  A goroutine that passes
\* the check builds its ManagedStream next, outside the lock: until the
\* stream is stored, createdAt[c] holds the clock at the check, the
\* earliest value the two readings of time.Now() can return.
EnterHandlePluginStream(c, name) ==
    /\ hpc[c] = "idle"
    /\ IF c = 1 THEN TRUE ELSE hpc[c - 1] # "idle"
    /\ hname' = [hname EXCEPT ![c] = name]
    /\ hsawFull' = [hsawFull EXCEPT ![c] = everFull]
    /\ IF CapacityReached(activeStreams)
       THEN /\ hpc' = [hpc EXCEPT ![c] = "done"]
            /\ hret' = [hret EXCEPT ![c] = ErrMaxConnectionsReached]
            /\ UNCHANGED createdAt
       ELSE /\ hpc' = [hpc EXCEPT ![c] = "insert"]
            /\ createdAt' = [createdAt EXCEPT ![c] = rclock]
            /\ UNCHANGED hret
    /\ UNCHANGED <<activeStreams, closeCount, hctxDone,
                   connectCalls, connectResult, disconnectCalls, everFull>>
    /\ UNCHANGED <<lastMessage, rclock, touchName>>

\* HandlePluginStream called directly, as the tests of the package do
CheckCapacity(c, name) ==
    /\ EnterHandlePluginStream(c, name)
    /\ UNCHANGED <<rvars, svars, kvars, dvars, bvars, xvars>>

\* The ManagedStream the goroutine has built by the time it takes the lock
\* again: createdAt and lastMessage are two readings of time.Now(), the
\* second not before the first, both made between the capacity check and
\* the insertion, while other goroutines run.
ManagedStreamReadings(c) ==
    {r \in (createdAt[c]..rclock) \X (createdAt[c]..rclock) : r[1] <= r[2]}

\* Second critical section: the ManagedStream is stored under the name.
RegisterPlugin(c) ==
    /\ hpc[c] = "insert"
    /\ activeStreams' = registerStream(activeStreams, hname[c], c)
    /\ everFull' = (everFull \/ ConnectionCount(activeStreams') >= MaxConnections)
    /\ \E r \in ManagedStreamReadings(c) :
          /\ createdAt' = [createdAt EXCEPT ![c] = r[1]]
          /\ lastMessage' = [lastMessage EXCEPT ![c] = r[2]]
    /\ hpc' = [hpc EXCEPT ![c] = "connect"]
    /\ UNCHANGED <<closeCount, hname, hctxDone, hret,
                   connectCalls, connectResult, disconnectCalls, hsawFull>>
    /\ UNCHANGED <<rclock, touchName, rvars, svars, kvars, dvars, bvars, xvars>>

\* sm.connectionHandler.OnPluginConnect(pluginName) returns nil or an error.
CallOnPluginConnect(c) ==
    /\ hpc[c] = "connect"
    /\ connectCalls' = [connectCalls EXCEPT ![c] = @ + 1]
    /\ \E r \in {"ok", "err"} :
          /\ connectResult' = [connectResult EXCEPT ![c] = r]
          /\ hpc' = [hpc EXCEPT ![c] = IF r = "ok" THEN "wait" ELSE "connectFailed"]
    /\ UNCHANGED <<activeStreams, closeCount, hname, hctxDone, hret,
                   disconnectCalls, everFull, hsawFull>>
    /\ UNCHANGED <<rvars, svars, kvars, tvars, dvars, bvars, xvars>>

\* The error branch: sm.unregisterPlugin(pluginName); return err
AbortOnConnectErrorFallsThrough(c) ==
    /\ hpc[c] = "connectFailed"
    /\ LET u == unregisterPlugin(activeStreams, closeCount, hname[c])
       IN  /\ activeStreams' = u.streams
           /\ closeCount' = u.closed
    /\ hpc' = [hpc EXCEPT ![c] = "wait"]
    /\ UNCHANGED <<hname, hctxDone, hret,
                   connectCalls, connectResult, disconnectCalls, everFull, hsawFull>>
    /\ UNCHANGED <<rvars, svars, kvars, tvars, dvars, bvars, xvars>>

AbortOnConnectError(c) ==
    /\ hpc[c] = "connectFailed"
    /\ LET u == unregisterPlugin(activeStreams, closeCount, hname[c])
       IN  /\ activeStreams' = u.streams
           /\ closeCount' = u.closed
    /\ hpc' = [hpc EXCEPT ![c] = "done"]
    /\ hret' = [hret EXCEPT ![c] = ErrConnectHandler]
    /\ UNCHANGED <<hname, hctxDone,
                   connectCalls, connectResult, disconnectCalls, everFull, hsawFull>>
    /\ UNCHANGED <<rvars, svars, kvars, tvars, dvars, bvars, xvars>>

\* <-ctx.Done() returns, then sm.unregisterPlugin(pluginName).
UnregisterWithoutWaiting(c) ==
    /\ hpc[c] = "wait"
    /\ LET u == unregisterPlugin(activeStreams, closeCount, hname[c])
       IN  /\ activeStreams' = u.streams
           /\ closeCount' = u.closed
    /\ hpc' = [hpc EXCEPT ![c] = "disconnect"]
    /\ UNCHANGED <<hname, hctxDone, hret,
                   connectCalls, connectResult, disconnectCalls, everFull, hsawFull>>
    /\ UNCHANGED <<rvars, svars, kvars, tvars, dvars, bvars, xvars>>

UnregisterOnDone(c) ==
    /\ hpc[c] = "wait"
    /\ hctxDone[c]
    /\ LET u == unregisterPlugin(activeStreams, closeCount, hname[c])
       IN  /\ activeStreams' = u.streams
           /\ closeCount' = u.closed
    /\ hpc' = [hpc EXCEPT ![c] = "disconnect"]
    /\ UNCHANGED <<hname, hctxDone, hret,
                   connectCalls, connectResult, disconnectCalls, everFull, hsawFull>>
    /\ UNCHANGED <<rvars, svars, kvars, tvars, dvars, bvars, xvars>>

\* _ = sm.connectionHandler.OnPluginDisconnect(pluginName); return ctx.Err()
CallOnPluginDisconnect(c) ==
    /\ hpc[c] = "disconnect"
    /\ disconnectCalls' = [disconnectCalls EXCEPT ![c] = @ + 1]
    /\ hpc' = [hpc EXCEPT ![c] = "done"]
    /\ hret' = [hret EXCEPT ![c] = ErrContext]
    /\ UNCHANGED <<activeStreams, closeCount, hname, hctxDone,
                   connectCalls, connectResult, everFull, hsawFull>>
    /\ UNCHANGED <<rvars, svars, kvars, tvars, dvars, bvars, xvars>>

\* The steps HandlePluginStream takes after its capacity check.
HandlePluginStream(c) ==
    \/ RegisterPlugin(c)
    \/ CallOnPluginConnect(c)
    \/ AbortOnConnectError(c)
    \/ UnregisterOnDone(c)
    \/ CallOnPluginDisconnect(c)

NextAdmission ==
    \/ \E c \in StreamCalls, n \in UsedNames \cup FreshNames : CheckCapacity(c, n)
    \/ \E c \in StreamCalls : CancelContext(c)
    \/ \E c \in StreamCalls : HandlePluginStream(c)

(***************************************************************************)
(* Part B: stream.StreamManager (host) and stream.PluginStreamClient       *)
(* (plugin) on one bidirectional stream.                                   *)
(***************************************************************************)
\* number of CallRPC invocations
NumCalls == 2

RPCCalls == 1..NumCalls

\* Strings that the code takes apart are sequences of characters.
MethodEcho == <<"E">>
MethodFail == <<"F">>
MethodInvalid == <<"M">>
\* the method arguments CallRPC is invoked with: a method of the service,
\* named by its full path, and a method the service does not have.  The
\* host treats every Error envelope alike (handleError only logs it), so
\* the method whose handler fails is called where the plugin's side is
\* examined.
CallMethods == {<<"s", "/", "E">>, <<"X">>}
PluginCallMethods == CallMethods \cup {MethodFail, MethodInvalid}
\* the request message of the c-th invocation, as its fields: one field
\* whose value is distinct per invocation, so that a reply names its request
Request(c) == <<[tag |-> 1, val |-> <<c>>]>>
\* a request message with a string field that is not UTF-8
InvalidRequest == <<[tag |-> 1, val |-> <<-1>>]>>
\* the request arguments CallRPC is invoked with
CallRequests(c) == {Request(c), InvalidRequest}

\* psc.service.Methods: the method table, and what each handler does
ServiceMethods == <<[MethodName |-> MethodEcho, Handler |-> "echo"],
                    [MethodName |-> MethodFail, Handler |-> "fail"],
                    [MethodName |-> MethodInvalid, Handler |-> "invalid"]>>

NoMsg == [kind |-> "none"]
NoChan == 0

\* fmt.Sprintf("%d", n) for n >= 0: the decimal digits of n
Digits == <<"0", "1", "2", "3", "4", "5", "6", "7", "8", "9">>
RECURSIVE FormatInt(_)
FormatInt(n) ==
    IF n < 10 THEN <<Digits[n + 1]>>
    ELSE FormatInt(n \div 10) \o <<Digits[(n % 10) + 1]>>

\* generateRequestID, given the clock reading
generateRequestID(clock) == FormatInt(clock)

\* path.Base: the last element of a slash-separated path
RECURSIVE StripTrailingSlashes(_)
StripTrailingSlashes(path) ==
    IF Len(path) > 0 /\ path[Len(path)] = "/"
    THEN StripTrailingSlashes(SubSeq(path, 1, Len(path) - 1))
    ELSE path
LastSlash(path) ==
    LET idx == {i \in 1..Len(path) : path[i] = "/"}
    IN  IF idx = {} THEN 0 ELSE CHOOSE i \in idx : \A j \in idx : j <= i
pathBase(path) ==
    IF path = << >> THEN <<".">>
    ELSE LET stripped == StripTrailingSlashes(path)
         IN  IF stripped = << >> THEN <<"/">>
             ELSE SubSeq(stripped, LastSlash(stripped) + 1, Len(stripped))

\* The envelopes.  The field call is history: the CallRPC invocation the
\* envelope belongs to; no code reads it.
RpcCallMsg(id, method, payload, c) ==
    [kind |-> "RpcCall", requestId |-> id, method |-> method,
     payload |-> payload, call |-> c]
RpcResponseMsg(id, payload, c) ==
    [kind |-> "RpcResponse", requestId |-> id, payload |-> payload, call |-> c]
ErrorMsg(code, message, c) ==
    [kind |-> "Error", code |-> code, message |-> message, call |-> c]

(***************************************************************************)
(* proto.Marshal and proto.Unmarshal.  The wire format is reduced to       *)
(* length-delimited fields: a message is the concatenation of its fields,  *)
(* each one <<tag, length>> followed by length bytes.  Bytes are naturals; *)
(* a negative number stands for a byte sequence that is not UTF-8.         *)
(***************************************************************************)
ValidUTF8(val) == \A i \in 1..Len(val) : val[i] >= 0

ParseFailed == [ok |-> FALSE, fields |-> << >>]

\* the fields of a serialized message, in wire order
RECURSIVE ParseFields(_)
ParseFields(bytes) ==
    IF bytes = << >> THEN [ok |-> TRUE, fields |-> << >>]
    ELSE IF Len(bytes) < 2 THEN ParseFailed
    ELSE IF bytes[1] < 1 \/ bytes[2] < 0 \/ bytes[2] > Len(bytes) - 2 THEN ParseFailed
    ELSE LET val == SubSeq(bytes, 3, 2 + bytes[2])
             rest == ParseFields(SubSeq(bytes, 3 + bytes[2], Len(bytes)))
         IN  IF ~ValidUTF8(val) \/ ~rest.ok THEN ParseFailed
             ELSE [ok |-> TRUE, fields |-> <<[tag |-> bytes[1], val |-> val]>> \o rest.fields]

\* the serialization of a list of fields
RECURSIVE EncodeFields(_)
EncodeFields(fields) ==
    IF fields = << >> THEN << >>
    ELSE <<fields[1].tag, Len(fields[1].val)>> \o fields[1].val \o EncodeFields(Tail(fields))

\* proto.Marshal of a request or response message, given as its fields
MarshalMessage(fields) ==
    IF \E i \in 1..Len(fields) : ~ValidUTF8(fields[i].val)
    THEN [err |-> TRUE, bytes |-> << >>]
    ELSE [err |-> FALSE, bytes |-> EncodeFields(fields)]

\* proto.Unmarshal into a request or response message
UnmarshalMessage(bytes) ==
    LET p == ParseFields(bytes)
    IN  [err |-> ~p.ok, fields |-> p.fields]

\* m.Handler(psc.impl, ctx, dec, nil): the handler decodes the payload with
\* dec, whose error it returns, and then runs the business method
InvokeHandler(handler, payload) ==
    LET req == UnmarshalMessage(payload)
    IN  IF req.err THEN [err |-> "unmarshal failed", out |-> << >>]
        ELSE IF handler = "echo" THEN [err |-> "nil", out |-> req.fields]
        ELSE IF handler = "invalid"
             THEN [err |-> "nil", out |-> <<[tag |-> 1, val |-> <<0 - 1>>]>>]
        ELSE [err |-> "handler failed", out |-> << >>]

\* a dispatcher that answers a method it does not know with an empty response
handleRPCCallAnswersUnknown(rpcCall) ==
    LET method == pathBase(rpcCall.method)
        found == {i \in 1..Len(ServiceMethods) : ServiceMethods[i].MethodName = method}
    IN  IF found # {}
        THEN LET m == ServiceMethods[CHOOSE i \in found : \A j \in found : i <= j]
                 r == InvokeHandler(m.Handler, rpcCall.payload)
                 resp == MarshalMessage(r.out)
             IN  IF r.err # "nil"
                 THEN ErrorMsg("RPC_ERROR", r.err, rpcCall.call)
                 ELSE IF resp.err
                 THEN ErrorMsg("MARSHAL_ERROR", "failed to marshal response", rpcCall.call)
                 ELSE RpcResponseMsg(rpcCall.requestId, resp.bytes, rpcCall.call)
        ELSE RpcResponseMsg(rpcCall.requestId, << >>, rpcCall.call)

\* handleRPCCall: the envelope written for a call
handleRPCCall(rpcCall) ==
    LET method == pathBase(rpcCall.method)
        found == {i \in 1..Len(ServiceMethods) : ServiceMethods[i].MethodName = method}
    IN  IF found # {}
        THEN LET m == ServiceMethods[CHOOSE i \in found : \A j \in found : i <= j]
                 r == InvokeHandler(m.Handler, rpcCall.payload)
                 resp == MarshalMessage(r.out)
             IN  IF r.err # "nil"
                 THEN ErrorMsg("RPC_ERROR", r.err, rpcCall.call)
                 ELSE IF resp.err
                 THEN ErrorMsg("MARSHAL_ERROR", "failed to marshal response", rpcCall.call)
                 ELSE RpcResponseMsg(rpcCall.requestId, resp.bytes, rpcCall.call)
        ELSE ErrorMsg("Unimplemented", <<"unknown method", rpcCall.method>>, rpcCall.call)

NoResult == [payload |-> << >>, err |-> "none"]
NoTask == [pc |-> "none", msg |-> NoMsg]

\* no environment failure so far: the transport is up and the contexts
\* of ListenForMessages and HandleRPCCalls are unfired
Healthy == ~streamFailed /\ ~lctxDone /\ ~pctxDone

\* The plugin's end of the stream once HandleRPCCalls has returned:
\* sendClosed tells that CloseSend was called on it, ret is what
\* HandleRPCCalls returned.
PluginEnd(sendClosed, ret) == [sendClosed |-> sendClosed, ret |-> ret]
pstream == Object("pstream", PluginEnd(FALSE, "none"))
sendClosed == pstream.sendClosed
pret == pstream.ret

\* what psc.stream.(interface{ CloseSend() error }) gives: the stream has no
\* such method, or it has and CloseSend returns nil or an error
CloseSends == {"none", "nil", "error"}

\* State after NewStreamManager and NewPluginStreamClient, with
\* ListenForMessages and HandleRPCCalls started.
InitRPC ==
    /\ now = 9
    /\ cpc = [c \in RPCCalls |-> "idle"]
    /\ cmethod = [c \in RPCCalls |-> MethodEcho]
    /\ cpayload = [c \in RPCCalls |-> << >>]
    /\ creqId = [c \in RPCCalls |-> << >>]
    /\ cctxDone = [c \in RPCCalls |-> FALSE]
    /\ cret = [c \in RPCCalls |-> NoResult]
    /\ cfrom = [c \in RPCCalls |-> NoMsg]
    /\ respChan = [c \in RPCCalls |-> << >>]
    /\ pendingCalls = << >>
    /\ toPlugin = << >>
    /\ toHost = << >>
    /\ streamFailed = FALSE
    /\ lpc = "top"
    /\ lmsg = NoMsg
    /\ lchan = NoChan
    /\ lctxDone = FALSE
    /\ lret = "none"
    /\ ppc = "top"
    /\ pctxDone = FALSE
    /\ task = [c \in RPCCalls |-> NoTask]

\* the transport fails: from now on Send and Recv return an error
\* (one environment failure is modelled per run)
StreamFails ==
    /\ Healthy
    /\ streamFailed' = TRUE
    /\ UNCHANGED <<now, cpc, cmethod, cpayload, creqId, cctxDone, cret, cfrom, respChan,
                   pendingCalls, toPlugin, toHost, lpc, lmsg, lchan,
                   lctxDone, lret, ppc, pctxDone, task>>
    /\ UNCHANGED <<avars, svars, kvars, tvars, dvars, bvars, xvars>>

(***************************************************************************)
(* CallRPC and waitForResponse.                                            *)
(***************************************************************************)
\* CallRPC(ctx, method, req) begins: proto.Marshal, whose error it returns
\* at once, then generateRequestID and sm.stream.Send(msg).  now is the last
\* clock reading; elapsed tells whether the clock has advanced since.
\* Invocations are interchangeable, so they are numbered in the order they
\* begin.
SendRPCCall(c, method, req, elapsed) ==
    /\ cpc[c] = "idle"
    /\ IF c = 1 THEN elapsed = 0 ELSE cpc[c - 1] # "idle"
    /\ IF MarshalMessage(req).err
       THEN /\ elapsed = 0
            /\ cpc' = [cpc EXCEPT ![c] = "done"]
            /\ cret' = [cret EXCEPT ![c] =
                          [payload |-> << >>, err |-> "failed to marshal request"]]
            /\ UNCHANGED <<now, cmethod, cpayload, creqId, toPlugin>>
       ELSE /\ now' = now + elapsed
            /\ cmethod' = [cmethod EXCEPT ![c] = method]
            /\ cpayload' = [cpayload EXCEPT ![c] = MarshalMessage(req).bytes]
            /\ creqId' = [creqId EXCEPT ![c] = generateRequestID(now')]
            /\ IF streamFailed
               THEN /\ cpc' = [cpc EXCEPT ![c] = "done"]
                    /\ cret' = [cret EXCEPT ![c] =
                                  [payload |-> << >>, err |-> "failed to send RPC call"]]
                    /\ UNCHANGED toPlugin
               ELSE /\ cpc' = [cpc EXCEPT ![c] = "register"]
                    /\ toPlugin' = Append(toPlugin,
                                      RpcCallMsg(generateRequestID(now'), method,
                                                 MarshalMessage(req).bytes, c))
                    /\ UNCHANGED cret
    /\ UNCHANGED <<cctxDone, cfrom, respChan,
                   pendingCalls, toHost, streamFailed, lpc, lmsg, lchan,
                   lctxDone, lret, ppc, pctxDone, task>>
    /\ UNCHANGED <<avars, svars, kvars, tvars, dvars, bvars, xvars>>

\* waitForResponse: respChan := make(chan, 1); sm.pendingCalls[requestID] = respChan
RegisterPendingCall(c) ==
    /\ cpc[c] = "register"
    /\ respChan' = [respChan EXCEPT ![c] = << >>]
    /\ pendingCalls' = [id \in (DOMAIN pendingCalls) \cup {creqId[c]} |->
                          IF id = creqId[c] THEN c ELSE pendingCalls[id]]
    /\ cpc' = [cpc EXCEPT ![c] = "wait"]
    /\ UNCHANGED <<now, cmethod, cpayload, creqId, cctxDone, cret, cfrom,
                   toPlugin, toHost, streamFailed, lpc, lmsg, lchan,
                   lctxDone, lret, ppc, pctxDone, task>>
    /\ UNCHANGED <<avars, svars, kvars, tvars, dvars, bvars, xvars>>

\* the caller's context ends; waitForResponse reads ctx only in its select
CancelCallContext(c) ==
    /\ cpc[c] = "wait"
    /\ ~cctxDone[c]
    /\ cctxDone' = [cctxDone EXCEPT ![c] = TRUE]
    /\ UNCHANGED <<now, cpc, cmethod, cpayload, creqId, cret, cfrom, respChan,
                   pendingCalls, toPlugin, toHost, streamFailed, lpc, lmsg, lchan,
                   lctxDone, lret, ppc, pctxDone, task>>
    /\ UNCHANGED <<avars, svars, kvars, tvars, dvars, bvars, xvars>>

\* select: case resp := <-respChan
ReceiveResponse(c) ==
    /\ cpc[c] = "wait"
    /\ respChan[c] # << >>
    /\ cret' = [cret EXCEPT ![c] = [payload |-> Head(respChan[c]).payload, err |-> "nil"]]
    /\ cfrom' = [cfrom EXCEPT ![c] = Head(respChan[c])]
    /\ respChan' = [respChan EXCEPT ![c] = Tail(@)]
    /\ cpc' = [cpc EXCEPT ![c] = "cleanup"]
    /\ UNCHANGED <<now, cmethod, cpayload, creqId, cctxDone,
                   pendingCalls, toPlugin, toHost, streamFailed, lpc, lmsg, lchan,
                   lctxDone, lret, ppc, pctxDone, task>>
    /\ UNCHANGED <<avars, svars, kvars, tvars, dvars, bvars, xvars>>

\* select: case <-ctx.Done()
WaitCancelled(c) ==
    /\ cpc[c] = "wait"
    /\ cctxDone[c]
    /\ cret' = [cret EXCEPT ![c] = [payload |-> << >>, err |-> ErrContext]]
    /\ cpc' = [cpc EXCEPT ![c] = "cleanup"]
    /\ UNCHANGED <<now, cmethod, cpayload, creqId, cctxDone, cfrom, respChan,
                   pendingCalls, toPlugin, toHost, streamFailed, lpc, lmsg, lchan,
                   lctxDone, lret, ppc, pctxDone, task>>
    /\ UNCHANGED <<avars, svars, kvars, tvars, dvars, bvars, xvars>>

\* the deferred delete(sm.pendingCalls, requestID), then CallRPC returns
RemovePendingCall(c) ==
    /\ cpc[c] = "cleanup"
    /\ pendingCalls' = [id \in (DOMAIN pendingCalls) \ {creqId[c]} |-> pendingCalls[id]]
    /\ cpc' = [cpc EXCEPT ![c] = "done"]
    /\ UNCHANGED <<now, cmethod, cpayload, creqId, cctxDone, cret, cfrom, respChan,
                   toPlugin, toHost, streamFailed, lpc, lmsg, lchan,
                   lctxDone, lret, ppc, pctxDone, task>>
    /\ UNCHANGED <<avars, svars, kvars, tvars, dvars, bvars, xvars>>

\* The steps CallRPC takes after its Send.
CallRPC(c) ==
    \/ RegisterPendingCall(c)
    \/ ReceiveResponse(c)
    \/ WaitCancelled(c)
    \/ RemovePendingCall(c)


(***************************************************************************)
(* ListenForMessages, handleResponse and handleError.                      *)
(***************************************************************************)
\* the governing context of ListenForMessages ends
CancelListenContext ==
    /\ lpc # "returned"
    /\ Healthy
    /\ lctxDone' = TRUE
    /\ UNCHANGED <<now, cpc, cmethod, cpayload, creqId, cctxDone, cret, cfrom, respChan,
                   pendingCalls, toPlugin, toHost, streamFailed, lpc, lmsg, lchan,
                   lret, ppc, pctxDone, task>>
    /\ UNCHANGED <<avars, svars, kvars, tvars, dvars, bvars, xvars>>

\* The top of the loop: select { case <-ctx.Done(): return ctx.Err();
\* default: }.  It runs before the first Recv and again after every
\* message handled.
ListenLoopTop ==
    /\ lpc = "top"
    /\ IF lctxDone
       THEN /\ lpc' = "returned"
            /\ lret' = ErrContext
       ELSE /\ lpc' = "recv"
            /\ UNCHANGED lret
    /\ UNCHANGED <<now, cpc, cmethod, cpayload, creqId, cctxDone, cret, cfrom, respChan,
                   pendingCalls, toPlugin, toHost, streamFailed, lmsg, lchan,
                   lctxDone, ppc, pctxDone, task>>
    /\ UNCHANGED <<avars, svars, kvars, tvars, dvars, bvars, xvars>>

\* sm.stream.Recv() returns an error: the stream has failed, or the plugin
\* has closed its side and everything it wrote was received (io.EOF)
ListenRecvFails ==
    /\ lpc = "recv"
    /\ streamFailed \/ (sendClosed /\ toHost = << >>)
    /\ lpc' = "returned"
    /\ lret' = "failed to receive message from plugin"
    /\ UNCHANGED <<now, cpc, cmethod, cpayload, creqId, cctxDone, cret, cfrom, respChan,
                   pendingCalls, toPlugin, toHost, streamFailed, lmsg, lchan,
                   lctxDone, ppc, pctxDone, task>>
    /\ UNCHANGED <<avars, svars, kvars, tvars, dvars, bvars, xvars>>

\* sm.stream.Recv() returns an envelope.  An RpcResponse goes to
\* handleResponse, which looks its channel up under requestsMu.RLock; no
\* entry is an error, which ListenForMessages returns.  An Error envelope
\* goes to handleError, which does nothing, and the loop starts over.
ListenRecv ==
    /\ lpc = "recv"
    /\ ~streamFailed
    /\ toHost # << >>
    /\ toHost' = Tail(toHost)
    /\ IF Head(toHost).kind = "RpcResponse"
       THEN IF Head(toHost).requestId \in DOMAIN pendingCalls
            THEN /\ lmsg' = Head(toHost)
                 /\ lchan' = pendingCalls[Head(toHost).requestId]
                 /\ lpc' = "deliver"
                 /\ UNCHANGED lret
            ELSE /\ lpc' = "returned"
                 /\ lret' = "failed to handle RPC response"
                 /\ UNCHANGED <<lmsg, lchan>>
       ELSE /\ lpc' = "top"
            /\ UNCHANGED lret
            /\ UNCHANGED <<lmsg, lchan>>
    /\ UNCHANGED <<now, cpc, cmethod, cpayload, creqId, cctxDone, cret, cfrom, respChan,
                   pendingCalls, toPlugin, streamFailed,
                   lctxDone, ppc, pctxDone, task>>
    /\ UNCHANGED <<avars, svars, kvars, tvars, dvars, bvars, xvars>>

\* the delivery as a plain send, respChan <- payload, without the default case
DeliverResponseBlocking ==
    /\ lpc = "deliver"
    /\ Len(respChan[lchan]) < 1
    /\ respChan' = [respChan EXCEPT ![lchan] = Append(@, lmsg)]
    /\ lpc' = "top"
    /\ UNCHANGED lret
    /\ lmsg' = NoMsg
    /\ lchan' = NoChan
    /\ UNCHANGED <<now, cpc, cmethod, cpayload, creqId, cctxDone, cret, cfrom,
                   pendingCalls, toPlugin, toHost, streamFailed,
                   lctxDone, ppc, pctxDone, task>>
    /\ UNCHANGED <<avars, svars, kvars, tvars, dvars, bvars, xvars>>

\* handleResponse: select { case respChan <- payload: default: }
DeliverResponse ==
    /\ lpc = "deliver"
    /\ respChan' = [respChan EXCEPT ![lchan] =
                      IF Len(@) < 1 THEN Append(@, lmsg) ELSE @]
    /\ lpc' = "top"
    /\ UNCHANGED lret
    /\ lmsg' = NoMsg
    /\ lchan' = NoChan
    /\ UNCHANGED <<now, cpc, cmethod, cpayload, creqId, cctxDone, cret, cfrom,
                   pendingCalls, toPlugin, toHost, streamFailed,
                   lctxDone, ppc, pctxDone, task>>
    /\ UNCHANGED <<avars, svars, kvars, tvars, dvars, bvars, xvars>>

ListenForMessages ==
    \/ ListenLoopTop
    \/ ListenRecv
    \/ DeliverResponse

(***************************************************************************)
(* HandleRPCCalls and the goroutines running handleRPCCall.                *)
(***************************************************************************)
\* the context of HandleRPCCalls ends
CancelPluginContext ==
    /\ ppc # "returned"
    /\ Healthy
    /\ pctxDone' = TRUE
    /\ UNCHANGED <<now, cpc, cmethod, cpayload, creqId, cctxDone, cret, cfrom, respChan,
                   pendingCalls, toPlugin, toHost, streamFailed, lpc, lmsg, lchan,
                   lctxDone, lret, ppc, task>>
    /\ UNCHANGED <<avars, svars, kvars, tvars, dvars, bvars, xvars>>

\* The top of the loop, select { case <-ctx.Done(): ...; default: }: with
\* the context done the loop calls CloseSend when the stream has it, and
\* returns its result, else nil; otherwise it goes on to Recv.
PluginLoopTop ==
    /\ ppc = "top"
    /\ IF pctxDone
       THEN \E closeSend \in CloseSends :
               /\ ppc' = "returned"
               /\ ext' = Store("pstream",
                            PluginEnd(closeSend # "none",
                                      IF closeSend = "error"
                                      THEN "close error" ELSE "nil"))
       ELSE /\ ppc' = "recv"
            /\ UNCHANGED ext
    /\ UNCHANGED <<now, cpc, cmethod, cpayload, creqId, cctxDone, cret, cfrom, respChan,
                   pendingCalls, toPlugin, toHost, streamFailed, lpc, lmsg, lchan,
                   lctxDone, lret, pctxDone, task>>
    /\ UNCHANGED <<avars, svars, kvars, tvars, dvars, bvars>>

\* psc.stream.Recv() returns an error
PluginRecvFails ==
    /\ ppc = "recv"
    /\ streamFailed
    /\ ppc' = "returned"
    /\ ext' = Store("pstream",
                 PluginEnd(sendClosed, "failed to receive message"))
    /\ UNCHANGED <<now, cpc, cmethod, cpayload, creqId, cctxDone, cret, cfrom, respChan,
                   pendingCalls, toPlugin, toHost, streamFailed, lpc, lmsg, lchan,
                   lctxDone, lret, pctxDone, task>>
    /\ UNCHANGED <<avars, svars, kvars, tvars, dvars, bvars>>

\* a loop that runs the handler inline: it receives the next call only when
\* no handler is running or writing
PluginRecvWaitsForHandler ==
    /\ ppc = "recv"
    /\ ~streamFailed
    /\ toPlugin # << >>
    /\ \A k \in RPCCalls : task[k].pc \notin {"run", "sending"}
    /\ toPlugin' = Tail(toPlugin)
    /\ task' = [task EXCEPT ![Head(toPlugin).call] = [pc |-> "run", msg |-> Head(toPlugin)]]
    /\ ppc' = "top"
    /\ UNCHANGED <<now, cpc, cmethod, cpayload, creqId, cctxDone, cret, cfrom, respChan,
                   pendingCalls, toHost, streamFailed, lpc, lmsg, lchan,
                   lctxDone, lret, pctxDone>>
    /\ UNCHANGED <<avars, svars, kvars, tvars, dvars, bvars, xvars>>

\* psc.stream.Recv() returns an RpcCall: go psc.handleRPCCall(ctx, rpcCall),
\* and the loop goes back to its top
PluginRecv ==
    /\ ppc = "recv"
    /\ ~streamFailed
    /\ toPlugin # << >>
    /\ toPlugin' = Tail(toPlugin)
    /\ task' = [task EXCEPT ![Head(toPlugin).call] = [pc |-> "run", msg |-> Head(toPlugin)]]
    /\ ppc' = "top"
    /\ UNCHANGED <<now, cpc, cmethod, cpayload, creqId, cctxDone, cret, cfrom, respChan,
                   pendingCalls, toHost, streamFailed, lpc, lmsg, lchan,
                   lctxDone, lret, pctxDone>>
    /\ UNCHANGED <<avars, svars, kvars, tvars, dvars, bvars, xvars>>

\* HandleRPCCalls(ctx): one step of its loop
HandleRPCCalls ==
    \/ PluginLoopTop
    \/ PluginRecv

\* a dispatcher whose loop ends when a call fails
RunHandlerFailureStopsLoop(k) ==
    /\ task[k].pc = "run"
    /\ task' = [task EXCEPT ![k] = [pc |-> "sending", msg |-> handleRPCCall(task[k].msg)]]
    /\ ppc' = IF handleRPCCall(task[k].msg).kind = "Error" THEN "returned" ELSE ppc
    /\ UNCHANGED <<now, cpc, cmethod, cpayload, creqId, cctxDone, cret, cfrom, respChan,
                   pendingCalls, toPlugin, toHost, streamFailed, lpc, lmsg, lchan,
                   lctxDone, lret, pctxDone>>
    /\ UNCHANGED <<avars, svars, kvars, tvars, dvars, bvars, xvars>>

\* the goroutine resolves the method, runs the handler and enters
\* psc.stream.Send(msg) with the reply
RunHandler(k) ==
    /\ task[k].pc = "run"
    /\ task' = [task EXCEPT ![k] = [pc |-> "sending", msg |-> handleRPCCall(task[k].msg)]]
    /\ UNCHANGED <<now, cpc, cmethod, cpayload, creqId, cctxDone, cret, cfrom, respChan,
                   pendingCalls, toPlugin, toHost, streamFailed, lpc, lmsg, lchan,
                   lctxDone, lret, ppc, pctxDone>>
    /\ UNCHANGED <<avars, svars, kvars, tvars, dvars, bvars, xvars>>

\* a goroutine that writes its reply twice
SendReplyTwice(k) ==
    /\ task[k].pc = "sending"
    /\ toHost' = IF streamFailed \/ sendClosed THEN toHost
                 ELSE Append(Append(toHost, task[k].msg), task[k].msg)
    /\ task' = [task EXCEPT ![k] = [pc |-> "done", msg |-> NoMsg]]
    /\ UNCHANGED <<now, cpc, cmethod, cpayload, creqId, cctxDone, cret, cfrom, respChan,
                   pendingCalls, toPlugin, streamFailed, lpc, lmsg, lchan,
                   lctxDone, lret, ppc, pctxDone>>
    /\ UNCHANGED <<avars, svars, kvars, tvars, dvars, bvars, xvars>>

\* psc.stream.Send(msg) returns; it fails on a failed stream and after
\* CloseSend, and its error is printed by the goroutine
SendReply(k) ==
    /\ task[k].pc = "sending"
    /\ toHost' = IF streamFailed \/ sendClosed THEN toHost
                 ELSE Append(toHost, task[k].msg)
    /\ task' = [task EXCEPT ![k] = [pc |-> "done", msg |-> NoMsg]]
    /\ UNCHANGED <<now, cpc, cmethod, cpayload, creqId, cctxDone, cret, cfrom, respChan,
                   pendingCalls, toPlugin, streamFailed, lpc, lmsg, lchan,
                   lctxDone, lret, ppc, pctxDone>>
    /\ UNCHANGED <<avars, svars, kvars, tvars, dvars, bvars, xvars>>

HandleRPCCallTask(k) ==
    \/ RunHandler(k)
    \/ SendReply(k)

\* a payload that ends inside a field: proto.Unmarshal rejects it
TruncatedPayload == <<1>>
\* The host writes an RpcCall envelope itself, not through CallRPC: the
\* payload of an RpcCall is opaque bytes, and psc.stream.Recv() hands the
\* plugin whatever the peer wrote.  The envelope takes the next call number.
ForeignRPCCall(c, method, payload) ==
    /\ cpc[c] = "idle"
    /\ c > 1 => cpc[c - 1] # "idle"
    /\ ~streamFailed
    /\ cpc' = [cpc EXCEPT ![c] = "foreign"]
    /\ cmethod' = [cmethod EXCEPT ![c] = method]
    /\ cpayload' = [cpayload EXCEPT ![c] = payload]
    /\ toPlugin' = Append(toPlugin, RpcCallMsg(<<"0">>, method, payload, c))
    /\ UNCHANGED <<now, creqId, cctxDone, cret, cfrom, respChan,
                   pendingCalls, toHost, streamFailed, lpc, lmsg, lchan,
                   lctxDone, lret, ppc, pctxDone, task>>
    /\ UNCHANGED <<avars, svars, kvars, tvars, dvars, bvars, xvars>>

\* The steps of the host and of the plugin while nothing fails.  No
\* context of a loop is cancelled here, so the select at the top of
\* HandleRPCCalls and the select at the top of ListenForMessages only move
\* their loop on to Recv: each reads and writes nothing the other
\* goroutines see and commutes with each of their steps, and it is taken
\* before them (the plugin's select first).
NextRPC ==
    \/ (ppc = "top" \/ lpc # "top") /\ HandleRPCCalls
    \/ ppc # "top" /\ ListenForMessages
    \/ ppc # "top" /\ lpc # "top"
          /\ \E c \in RPCCalls, m \in CallMethods, elapsed \in {0, 1} :
                \E req \in CallRequests(c) : SendRPCCall(c, m, req, elapsed)
    \/ ppc # "top" /\ lpc # "top" /\ \E c \in RPCCalls : CallRPC(c)
    \/ ppc # "top" /\ lpc # "top" /\ \E c \in RPCCalls : CancelCallContext(c)
    \/ ppc # "top" /\ lpc # "top" /\ \E k \in RPCCalls : HandleRPCCallTask(k)

\* the plugin's side alone: the host writes its calls and the plugin
\* dispatches and answers them
NextPlugin ==
    \/ \E c \in RPCCalls, m \in PluginCallMethods, elapsed \in {0, 1} :
          \E req \in CallRequests(c) : SendRPCCall(c, m, req, elapsed)
    \/ \E c \in RPCCalls, m \in PluginCallMethods :
          ForeignRPCCall(c, m, TruncatedPayload)
    \/ HandleRPCCalls
    \/ \E k \in RPCCalls : HandleRPCCallTask(k)

\* The same steps in every order, with the environment failures and the
\* steps that observe them: once the context of HandleRPCCalls can end, the
\* top of the loop may call CloseSend before or after a goroutine writes.
NextRPCFaults ==
    \/ \E c \in RPCCalls, m \in CallMethods, elapsed \in {0, 1} :
          \E req \in CallRequests(c) : SendRPCCall(c, m, req, elapsed)
    \/ \E c \in RPCCalls : CallRPC(c)
    \/ \E c \in RPCCalls : CancelCallContext(c)
    \/ ListenForMessages
    \/ HandleRPCCalls
    \/ \E k \in RPCCalls : HandleRPCCallTask(k)
    \/ StreamFails
    \/ CancelListenContext
    \/ CancelPluginContext
    \/ ListenRecvFails
    \/ PluginRecvFails

(***************************************************************************)
(* Part C: opening a stream.                                               *)
(***************************************************************************)
\* the Register envelope
RegisterMsg(name, version) ==
    [kind |-> "Register", name |-> name, version |-> version]

\* what a Recv returned: an error, or an envelope
RecvError == [err |-> TRUE, msg |-> NoMsg]
RecvMsg(m) == [err |-> FALSE, msg |-> m]
NoRecv == [err |-> FALSE, msg |-> NoMsg]

\* first messages of a peer that does not follow the protocol
ForeignFirstMessages ==
    {[kind |-> "RpcResponse", requestId |-> <<"0">>, payload |-> << >>, call |-> 0],
     [kind |-> "Error", code |-> "RPC_ERROR", message |-> "", call |-> 0]}

NoStatus == [code |-> "none", message |-> "none"]

(***************************************************************************)
(* PluginFrameworkServiceServerImpl.PluginStream.                          *)
(***************************************************************************)
\* a service that hands an empty plugin name on to HandlePluginStream
PluginStreamRegistrationAllowsEmpty(recv) ==
    IF recv.err
    THEN [code |-> "InvalidArgument",
          message |-> "failed to receive plugin registration", name |-> ""]
    ELSE IF recv.msg.kind # "Register"
    THEN [code |-> "InvalidArgument",
          message |-> "first message must be PluginRegister", name |-> ""]
    ELSE [code |-> "OK", message |-> "", name |-> recv.msg.name]
\* a service that takes whatever comes first for a registration
PluginStreamRegistrationLax(recv) ==
    IF recv.err
    THEN [code |-> "InvalidArgument",
          message |-> "failed to receive plugin registration", name |-> ""]
    ELSE IF recv.msg.kind = "Register" /\ recv.msg.name = ""
    THEN [code |-> "InvalidArgument",
          message |-> "plugin name cannot be empty", name |-> ""]
    ELSE [code |-> "OK", message |-> "",
          name |-> IF recv.msg.kind = "Register" THEN recv.msg.name ELSE "p0"]
\* Step 1 of PluginStream: stream.Recv(), msg.GetRegister(), GetName()
PluginStreamRegistration(recv) ==
    IF recv.err
    THEN [code |-> "InvalidArgument",
          message |-> "failed to receive plugin registration", name |-> ""]
    ELSE IF recv.msg.kind # "Register"
    THEN [code |-> "InvalidArgument",
          message |-> "first message must be PluginRegister", name |-> ""]
    ELSE IF recv.msg.name = ""
    THEN [code |-> "InvalidArgument",
          message |-> "plugin name cannot be empty", name |-> ""]
    ELSE [code |-> "OK", message |-> "", name |-> recv.msg.name]

InitService ==
    /\ spc = [g \in StreamCalls |-> "recv"]
    /\ sfirst = [g \in StreamCalls |-> NoRecv]
    /\ scall = [g \in StreamCalls |-> 0]
    /\ sret = [g \in StreamCalls |-> NoStatus]

\* what the first Recv of a PluginStream invocation may return
FirstRecvs ==
    {RecvError}
    \cup {RecvMsg(RegisterMsg(n, "v1")) : n \in UsedNames \cup FreshNames \cup {""}}
    \cup {RecvMsg(m) : m \in ForeignFirstMessages}

\* PluginStream up to its call of s.server.HandlePluginStream: the first
\* Recv, the validation, and, for a valid registration, the entry into
\* HandlePluginStream(stream.Context(), pluginName), whose first critical
\* section follows without any other access to shared state in between.
\* Invocations are numbered in the order their first Recv returns.
PluginStreamRecv(g, recv) ==
    /\ spc[g] = "recv"
    /\ IF g = 1 THEN TRUE ELSE spc[g - 1] # "recv"
    /\ sfirst' = [sfirst EXCEPT ![g] = recv]
    /\ IF PluginStreamRegistration(recv).code # "OK"
       THEN /\ spc' = [spc EXCEPT ![g] = "returned"]
            /\ sret' = [sret EXCEPT ![g] =
                          [code |-> PluginStreamRegistration(recv).code,
                           message |-> PluginStreamRegistration(recv).message]]
            /\ UNCHANGED scall
            /\ UNCHANGED <<avars, tvars>>
       ELSE /\ \E c \in StreamCalls :
                 /\ EnterHandlePluginStream(c, PluginStreamRegistration(recv).name)
                 /\ scall' = [scall EXCEPT ![g] = c]
            /\ spc' = [spc EXCEPT ![g] = "handle"]
            /\ UNCHANGED sret
    /\ UNCHANGED <<rvars, kvars, dvars, bvars, xvars>>

\* HandlePluginStream has returned: an error becomes the Internal status;
\* after a nil error PluginStream waits for stream.Context().Done() and
\* returns the context's error.
PluginStreamReturns(g) ==
    /\ spc[g] = "handle"
    /\ hpc[scall[g]] = "done"
    /\ hret[scall[g]] = ErrNone => hctxDone[scall[g]]
    /\ spc' = [spc EXCEPT ![g] = "returned"]
    /\ sret' = [sret EXCEPT ![g] =
                  IF hret[scall[g]] # ErrNone
                  THEN [code |-> "Internal",
                        message |-> <<"failed to handle plugin stream", hret[scall[g]]>>]
                  ELSE [code |-> "Canceled", message |-> ErrContext]]
    /\ UNCHANGED <<sfirst, scall>>
    /\ UNCHANGED <<avars, rvars, kvars, tvars, dvars, bvars, xvars>>

PluginStream(g) ==
    \/ \E recv \in FirstRecvs : PluginStreamRecv(g, recv)
    \/ PluginStreamReturns(g)

(***************************************************************************)
(* client.New, NewPluginStreamClient and stream.NewStreamManager.          *)
(***************************************************************************)
\* what client.New returned: the message of its error and the wrapped cause
NewError(msg, cause) == [msg |-> msg, cause |-> cause]
NewNotReturned == NewError("none", "")
NewNil == NewError("nil", "")

\* the name and version the plugin is built with
ClientPluginName == "p0"
ClientPluginVersion == "v1"

\* a constructor that returns the client whatever its Send returned
NewPluginStreamClientIgnoresSendError(sendOk, pluginName, pluginVersion) ==
    [psc |-> TRUE, err |-> "nil", sends |-> 1,
     wire |-> IF sendOk THEN <<RegisterMsg(pluginName, pluginVersion)>> ELSE << >>]
\* NewPluginStreamClient: builds the client and sends the registration;
\* sendOk tells whether stream.Send(registerMsg) succeeds, sends counts the
\* Send calls and wire is what reached the stream
NewPluginStreamClient(sendOk, pluginName, pluginVersion) ==
    IF sendOk
    THEN [psc |-> TRUE, err |-> "nil", sends |-> 1,
          wire |-> <<RegisterMsg(pluginName, pluginVersion)>>]
    ELSE [psc |-> FALSE, err |-> "failed to send registration", sends |-> 1,
          wire |-> << >>]

\* stream.NewStreamManager, given what its stream.Recv() returns
NewStreamManager(recv) ==
    IF recv.err
    THEN [sm |-> FALSE, err |-> "failed to receive plugin register",
          plugin |-> [name |-> "", version |-> ""]]
    ELSE IF recv.msg.kind # "Register"
    THEN [sm |-> FALSE, err |-> "first message must be PluginRegister",
          plugin |-> [name |-> "", version |-> ""]]
    ELSE [sm |-> TRUE, err |-> "nil",
          plugin |-> [name |-> recv.msg.name, version |-> recv.msg.version]]

\* before anyone has opened the stream of Part B
InitUnconnected ==
    /\ peer = "none"
    /\ newRet = NewNotReturned
    /\ pscBuilt = FALSE
    /\ conn = "none"
    /\ creatorCalls = 0
    /\ registerSends = 0
    /\ smBuilt = FALSE
    /\ smErr = "none"
    /\ smFirst = NoRecv
    /\ smPlugin = [name |-> "", version |-> ""]

\* after client.New and stream.NewStreamManager have both succeeded
InitConnected ==
    /\ peer = "library"
    /\ newRet = NewNil
    /\ pscBuilt = TRUE
    /\ conn = "open"
    /\ creatorCalls = 1
    /\ registerSends = 1
    /\ smBuilt = TRUE
    /\ smErr = "nil"
    /\ smFirst = RecvMsg(RegisterMsg(ClientPluginName, ClientPluginVersion))
    /\ smPlugin = [name |-> ClientPluginName, version |-> ClientPluginVersion]

\* the frame of client.New while it runs: where it is, and its variable err
NewFrame(pc, err) == [pc |-> pc, err |-> err]
NewIdle == NewFrame("idle", NewNil)
newFrame == Object("new", NewIdle)

\* what client.New leaves alone
NewKeeps ==
    /\ UNCHANGED <<smBuilt, smErr, smFirst, smPlugin>>
    /\ UNCHANGED <<now, cpc, cmethod, cpayload, creqId, cctxDone, cret, cfrom, respChan,
                   pendingCalls, toPlugin, streamFailed, lpc, lmsg, lchan,
                   lctxDone, lret, ppc, pctxDone, task>>
    /\ UNCHANGED <<avars, svars, tvars, dvars, bvars>>

\* a New that validates the token only after it has dialled and created
\* the stream
NewValidateTokenAfterStream(tokenOk) ==
    /\ peer = "none"
    /\ newRet = NewNotReturned
    /\ "new" \notin DOMAIN ext
    /\ IF tokenOk
       THEN /\ ext' = Store("new", NewFrame("dial", NewNil))
            /\ UNCHANGED <<newRet, conn, creatorCalls>>
       ELSE /\ newRet' = NewError("failed to validate token provider", "GetToken")
            /\ creatorCalls' = creatorCalls + 1
            /\ conn' = "closed"
            /\ UNCHANGED ext
    /\ UNCHANGED <<peer, pscBuilt, registerSends, toHost>>
    /\ NewKeeps
\* client.New(ctx, name, addr, pluginVersion, serviceDesc, impl,
\* streamCreator, opts...) up to the token: tokenOk tells that no token
\* provider is configured or that its GetToken succeeds; otherwise New
\* returns the error
NewValidateToken(tokenOk) ==
    /\ peer = "none"
    /\ newRet = NewNotReturned
    /\ "new" \notin DOMAIN ext
    /\ IF tokenOk
       THEN /\ ext' = Store("new", NewFrame("dial", NewNil))
            /\ UNCHANGED newRet
       ELSE /\ newRet' = NewError("failed to validate token provider", "GetToken")
            /\ UNCHANGED ext
    /\ UNCHANGED <<peer, pscBuilt, conn, creatorCalls, registerSends, toHost>>
    /\ NewKeeps

\* grpcConn, err := grpc.NewClient(addr, dialOpts...) (connOk: it succeeds);
\* on an error New returns it, the deferred Close is not yet registered
NewDial(connOk) ==
    /\ newFrame.pc = "dial"
    /\ IF connOk
       THEN /\ conn' = "open"
            /\ ext' = Store("new", NewFrame("stream", NewNil))
            /\ UNCHANGED newRet
       ELSE /\ newRet' = NewError("failed to connect to server", "grpc.NewClient")
            /\ ext' = Drop("new")
            /\ UNCHANGED conn
    /\ UNCHANGED <<peer, pscBuilt, creatorCalls, registerSends, toHost>>
    /\ NewKeeps

\* grpcStream, err := streamCreator(grpcConn) (creatorOk: it succeeds)
NewCreateStream(creatorOk) ==
    /\ newFrame.pc = "stream"
    /\ creatorCalls' = creatorCalls + 1
    /\ IF creatorOk
       THEN /\ peer' = "library"
            /\ ext' = Store("new", NewFrame("register", NewNil))
       ELSE /\ ext' = Store("new", NewFrame("return",
                         NewError("failed to create plugin stream", "streamCreator")))
            /\ UNCHANGED peer
    /\ UNCHANGED <<newRet, pscBuilt, conn, registerSends, toHost>>
    /\ NewKeeps

\* pluginStreamClient, err := stream.NewPluginStreamClient(...) (sendOk: the
\* Send of the registration succeeds)
NewSendRegistration(sendOk) ==
    /\ newFrame.pc = "register"
    /\ LET r == NewPluginStreamClient(sendOk, ClientPluginName, ClientPluginVersion)
       IN  /\ registerSends' = registerSends + r.sends
           /\ toHost' = toHost \o r.wire
           /\ pscBuilt' = r.psc
           /\ ext' = Store("new", NewFrame("return",
                        IF r.psc THEN NewNil
                        ELSE NewError("failed to create plugin stream client", r.err)))
    /\ UNCHANGED <<peer, newRet, conn, creatorCalls>>
    /\ NewKeeps

\* a New without its deferred grpcConn.Close()
NewReturnLeavesConnectionOpen ==
    /\ newFrame.pc = "return"
    /\ newRet' = newFrame.err
    /\ ext' = Drop("new")
    /\ UNCHANGED <<peer, pscBuilt, conn, creatorCalls, registerSends, toHost>>
    /\ NewKeeps
\* New returns: the deferred function closes the connection when err is
\* not nil
NewReturn ==
    /\ newFrame.pc = "return"
    /\ newRet' = newFrame.err
    /\ conn' = IF newFrame.err # NewNil THEN "closed" ELSE conn
    /\ ext' = Drop("new")
    /\ UNCHANGED <<peer, pscBuilt, creatorCalls, registerSends, toHost>>
    /\ NewKeeps

\* client.New, one goroutine from its call to its return
ClientNew ==
    \/ \E tokenOk \in BOOLEAN : NewValidateToken(tokenOk)
    \/ \E connOk \in BOOLEAN : NewDial(connOk)
    \/ \E creatorOk \in BOOLEAN : NewCreateStream(creatorOk)
    \/ \E sendOk \in BOOLEAN : NewSendRegistration(sendOk)
    \/ NewReturn

\* Client.Close: closes the gRPC connection the client holds.
ClientClose ==
    /\ newRet = NewNil
    /\ conn = "open"
    /\ conn' = "closed"
    /\ UNCHANGED <<peer, newRet, pscBuilt, creatorCalls, registerSends,
                   smBuilt, smErr, smFirst, smPlugin>>
    /\ UNCHANGED <<rvars, avars, svars, tvars, dvars, bvars, xvars>>

\* a peer that was not built with client.New opens the stream and writes
\* something else than a Register first
ForeignFirstMessage(m) ==
    /\ peer = "none"
    /\ newRet = NewNotReturned
    /\ "new" \notin DOMAIN ext
    /\ peer' = "foreign"
    /\ toHost' = Append(toHost, m)
    /\ UNCHANGED <<newRet, pscBuilt, conn, creatorCalls, registerSends,
                   smBuilt, smErr, smFirst, smPlugin>>
    /\ UNCHANGED <<now, cpc, cmethod, cpayload, creqId, cctxDone, cret, cfrom, respChan,
                   pendingCalls, toPlugin, streamFailed, lpc, lmsg, lchan,
                   lctxDone, lret, ppc, pctxDone, task>>
    /\ UNCHANGED <<avars, svars, tvars, dvars, bvars, xvars>>

\* The host calls stream.NewStreamManager(stream): its Recv returns the
\* first envelope of the stream, or an error once the peer has closed its
\* connection.
HostNewStreamManager ==
    /\ ~smBuilt
    /\ smErr = "none"
    /\ toHost # << >> \/ conn = "closed"
    /\ LET recv == IF toHost # << >> THEN RecvMsg(Head(toHost)) ELSE RecvError
       IN  /\ smFirst' = recv
           /\ smBuilt' = NewStreamManager(recv).sm
           /\ smErr' = NewStreamManager(recv).err
           /\ smPlugin' = NewStreamManager(recv).plugin
    /\ toHost' = IF toHost # << >> THEN Tail(toHost) ELSE toHost
    /\ UNCHANGED <<peer, newRet, pscBuilt, conn, creatorCalls, registerSends>>
    /\ UNCHANGED <<now, cpc, cmethod, cpayload, creqId, cctxDone, cret, cfrom, respChan,
                   pendingCalls, toPlugin, streamFailed, lpc, lmsg, lchan,
                   lctxDone, lret, ppc, pctxDone, task>>
    /\ UNCHANGED <<avars, svars, tvars, dvars, bvars, xvars>>

\* both ends of the stream exist: New has returned the client and
\* NewStreamManager the manager
Connected == newRet = NewNil /\ pscBuilt /\ smBuilt

\* the steps that open the stream of Part B
NextOpen ==
    \/ ClientNew
    \/ \E m \in ForeignFirstMessages : ForeignFirstMessage(m)
    \/ HostNewStreamManager

\* The stream of Part B from before it is opened: CallRPC and
\* ListenForMessages are methods of the manager, HandleRPCCalls of the
\* client, so they run once both exist.
NextConnect ==
    \/ NextOpen
    \/ Connected /\ NextRPC

\* The plugin from client.New to Client.Close: the dispatcher runs on the
\* connection while it is open.
NextClient ==
    \/ NextOpen
    \/ ClientClose
    \/ Connected /\ conn = "open" /\ NextPlugin

\* The host's two ways of taking a new stream, tried by peers that may
\* break the protocol: stream.NewStreamManager, and the service entry point
\* in front of the connection registry.  The two share no state, so their
\* steps commute and the steps of the first are taken before the steps of
\* the second.
NextHandshake ==
    \/ \E m \in ForeignFirstMessages : ForeignFirstMessage(m)
    \/ HostNewStreamManager
    \/ smErr # "none" /\ \E g \in StreamCalls : PluginStream(g)
    \/ smErr # "none" /\ \E c \in StreamCalls : CancelContext(c)
    \/ smErr # "none" /\ \E c \in StreamCalls : HandlePluginStream(c)

(***************************************************************************)
(* Specifications.                                                         *)
(***************************************************************************)
(***************************************************************************)
(* Part D: the timestamps of the attached streams.                         *)
(***************************************************************************)
\* number of UpdateLastMessageTime invocations
MaxTouches == 1

\* no ManagedStream created yet; the clock reads 1
InitTimes ==
    /\ createdAt = [c \in StreamCalls |-> 0]
    /\ lastMessage = [c \in StreamCalls |-> 0]
    /\ rclock = 1
    /\ touchName = "none"

\* an update that also restarts the uptime of the stream
UpdateLastMessageTimeResetsCreated(pluginName) ==
    /\ rclock <= MaxTouches
    /\ rclock' = rclock + 1
    /\ touchName' = pluginName
    /\ lastMessage' = IF pluginName \in DOMAIN activeStreams
                      THEN [lastMessage EXCEPT ![activeStreams[pluginName]] = rclock']
                      ELSE lastMessage
    /\ createdAt' = IF pluginName \in DOMAIN activeStreams
                    THEN [createdAt EXCEPT ![activeStreams[pluginName]] = rclock']
                    ELSE createdAt
    /\ UNCHANGED <<avars, rvars, svars, kvars, dvars, bvars, xvars>>

\* UpdateLastMessageTime, called after the clock has advanced
UpdateLastMessageTime(pluginName) ==
    /\ rclock <= MaxTouches
    /\ rclock' = rclock + 1
    /\ touchName' = pluginName
    /\ lastMessage' = IF pluginName \in DOMAIN activeStreams
                      THEN [lastMessage EXCEPT ![activeStreams[pluginName]] = rclock']
                      ELSE lastMessage
    /\ UNCHANGED <<createdAt, avars, rvars, svars, kvars, dvars, bvars, xvars>>

\* number of HandlePluginStream invocations next to the updates
NumTouchedStreams == 2

RegistryCalls == 1..NumTouchedStreams

\* the stream manager with its callers of UpdateLastMessageTime
NextRegistry ==
    \/ \E c \in RegistryCalls, name \in UsedNames \cup FreshNames : CheckCapacity(c, name)
    \/ \E c \in RegistryCalls : HandlePluginStream(c)
    \/ \E c \in RegistryCalls : CancelContext(c)
    \/ \E name \in UsedNames \cup FreshNames : UpdateLastMessageTime(name)

(***************************************************************************)
(* Part E: handleRPCCall as a function of the RpcCall it is given.         *)
(***************************************************************************)
\* longest method value, largest byte and longest payload of an RpcCall
MaxPathLen == 3
MaxByte == 1
MaxWireLen == 3

\* the sequences over S of length at most n
SeqsUpTo(S, n) == UNION {[1..k -> S] : k \in 0..n}

PathChars == {"s", "/", ".", "E"}

\* the method values and the payloads of the calls
DispatchMethods == SeqsUpTo(PathChars, MaxPathLen) \cup {MethodFail, MethodInvalid}
DispatchPayloads == SeqsUpTo(0..MaxByte, MaxWireLen)

\* an RpcCall has been received; its goroutine has not run
InitDispatch ==
    /\ \E m \in DispatchMethods, p \in DispatchPayloads :
           dcall = RpcCallMsg(<<"7">>, m, p, 0)
    /\ dsent = NoMsg

\* go psc.handleRPCCall(ctx, rpcCall): the envelope handed to psc.stream.Send
DispatchCall ==
    /\ dcall # NoMsg
    /\ dsent = NoMsg
    /\ dsent' = handleRPCCall(dcall)
    /\ UNCHANGED <<dcall, avars, rvars, svars, kvars, tvars, bvars, xvars>>

NextDispatch == DispatchCall

(***************************************************************************)
(* Part F: BidiStreamAdapter over an underlying transport of carriers.     *)
(***************************************************************************)
\* the value of one field, with the tag it has on the wire; proto3 leaves
\* an empty field out
Field(tag, val) == IF val = << >> THEN << >> ELSE <<[tag |-> tag, val |-> val]>>

\* the last value of the field tag among fields, or the empty value
GetField(fields, tag) ==
    LET idx == {i \in 1..Len(fields) : fields[i].tag = tag}
    IN  IF idx = {} THEN << >>
        ELSE fields[CHOOSE i \in idx : \A j \in idx : j <= i].val

\* the tag of each case of PluginStreamMessage.Payload
CaseTag(kind) ==
    CASE kind = "Register" -> 1
      [] kind = "RpcCall" -> 2
      [] kind = "RpcResponse" -> 3
      [] kind = "Error" -> 4

\* the fields of the message in the active case of an envelope
CaseFields(e) ==
    CASE e.kind = "Register" -> Field(1, e.name) \o Field(2, e.version)
      [] e.kind = "RpcCall" ->
            Field(1, e.requestId) \o Field(2, e.method) \o Field(3, e.payload)
      [] e.kind = "RpcResponse" -> Field(1, e.requestId) \o Field(2, e.payload)
      [] e.kind = "Error" -> Field(1, e.code) \o Field(2, e.message)

\* a serializer that leaves out an active case all of whose fields are empty
MarshalOmitsEmptyCase(e) ==
    IF e.kind = "none" THEN [err |-> FALSE, bytes |-> << >>]
    ELSE LET inner == MarshalMessage(CaseFields(e))
         IN  IF inner.err THEN [err |-> TRUE, bytes |-> << >>]
             ELSE [err |-> FALSE,
                   bytes |-> IF inner.bytes = << >> THEN << >>
                             ELSE <<CaseTag(e.kind), Len(inner.bytes)>> \o inner.bytes]

\* proto.Marshal(msg) of an envelope
Marshal(e) ==
    IF e.kind = "none" THEN [err |-> FALSE, bytes |-> << >>]
    ELSE LET inner == MarshalMessage(CaseFields(e))
         IN  IF inner.err THEN [err |-> TRUE, bytes |-> << >>]
             ELSE [err |-> FALSE,
                   bytes |-> <<CaseTag(e.kind), Len(inner.bytes)>> \o inner.bytes]

\* the envelope with the active case of tag and the given fields
Envelope(tag, fields) ==
    CASE tag = 1 -> [kind |-> "Register", name |-> GetField(fields, 1),
                     version |-> GetField(fields, 2)]
      [] tag = 2 -> RpcCallMsg(GetField(fields, 1), GetField(fields, 2),
                               GetField(fields, 3), 0)
      [] tag = 3 -> RpcResponseMsg(GetField(fields, 1), GetField(fields, 2), 0)
      [] tag = 4 -> ErrorMsg(GetField(fields, 1), GetField(fields, 2), 0)

\* proto.Unmarshal(msgBytes, frameworkMsg): fields with an unknown tag are
\* skipped, and of several cases the last one stays
Unmarshal(bytes) ==
    LET top == ParseFields(bytes)
        cases == {i \in 1..Len(top.fields) : top.fields[i].tag \in 1..4}
    IN  IF ~top.ok \/ \E i \in cases : ~ParseFields(top.fields[i].val).ok
        THEN [err |-> TRUE, msg |-> NoMsg]
        ELSE IF cases = {} THEN [err |-> FALSE, msg |-> NoMsg]
        ELSE LET last == top.fields[CHOOSE i \in cases : \A j \in cases : j <= i]
             IN  [err |-> FALSE,
                  msg |-> Envelope(last.tag, ParseFields(last.val).fields)]

\* the carrier type T with its two functions
wrapMessage(bytes) == [data |-> bytes]
unwrapMessage(wrapper) == wrapper.data

\* number of writes to the transport, and longest field of an envelope
MaxSends == 2
MaxFieldLen == 1

FieldValues == SeqsUpTo(0..MaxByte, MaxFieldLen)

\* the envelopes handed to Send: every envelope with fields of the bounded
\* length, and one whose name is not UTF-8
AdapterEnvelopes ==
    {[kind |-> "Register", name |-> n, version |-> v] :
        n \in FieldValues \cup {<<0 - 1>>}, v \in FieldValues}
    \cup {RpcCallMsg(i, m, q, 0) : i \in FieldValues, m \in FieldValues, q \in FieldValues}
    \cup {RpcResponseMsg(i, q, 0) : i \in FieldValues, q \in FieldValues}
    \cup {ErrorMsg(c, m, 0) : c \in FieldValues, m \in FieldValues}

\* the envelopes handed to Send after the first write
LaterEnvelopes ==
    {[kind |-> "Register", name |-> <<0>>, version |-> << >>],
     RpcCallMsg(<<0>>, <<0>>, <<0>>, 0),
     RpcResponseMsg(<<0>>, << >>, 0),
     ErrorMsg(<<0>>, <<0>>, 0)}

\* the bytes of the carriers written by a peer that does not use the adapter
PeerBytes == SeqsUpTo(0..MaxByte, MaxWireLen)
LaterPeerBytes == {<<0>>, <<1, 0>>}

\* what a write to the transport carries (history)
CarrierWritten(e, bytes) == [msg |-> e, data |-> bytes]

\* what Recv returned
RecvResult(e, err) == [msg |-> e, err |-> err]
ErrTransport == "transport failed"
ErrDecode == "failed to unmarshal to framework message"

\* BidiStreamAdapter.Send(msg)
AdapterSend(e) ==
    /\ Len(adSent) < MaxSends
    /\ LET m == Marshal(e)
       IN  IF m.err \/ adFailed
           THEN UNCHANGED <<adSent, adWire>>
           ELSE /\ adWire' = Append(adWire, wrapMessage(m.bytes))
                /\ adSent' = Append(adSent, CarrierWritten(e, m.bytes))
    /\ UNCHANGED <<adRecvd, adUnwraps, adFailed>>
    /\ UNCHANGED <<avars, rvars, svars, kvars, tvars, dvars, xvars>>

\* a peer writes a carrier of its own making to the transport
PeerWrites(bytes) ==
    /\ Len(adSent) < MaxSends
    /\ ~adFailed
    /\ adWire' = Append(adWire, wrapMessage(bytes))
    /\ adSent' = Append(adSent, CarrierWritten(NoMsg, bytes))
    /\ UNCHANGED <<adRecvd, adUnwraps, adFailed>>
    /\ UNCHANGED <<avars, rvars, svars, kvars, tvars, dvars, xvars>>

\* the underlying transport fails: its Send and Recv return an error
TransportFails ==
    /\ ~adFailed
    /\ adFailed' = TRUE
    /\ UNCHANGED <<adSent, adWire, adRecvd, adUnwraps>>
    /\ UNCHANGED <<avars, rvars, svars, kvars, tvars, dvars, xvars>>

\* a Recv that hands on whatever it could decode, without an error
AdapterRecvIgnoresDecodeError ==
    \/ /\ ~adFailed
       /\ adWire # << >>
       /\ adWire' = Tail(adWire)
       /\ adUnwraps' = adUnwraps + 1
       /\ adRecvd' = Append(adRecvd,
                            RecvResult(Unmarshal(unwrapMessage(Head(adWire))).msg, "nil"))
       /\ UNCHANGED <<adSent, adFailed>>
       /\ UNCHANGED <<avars, rvars, svars, kvars, tvars, dvars, xvars>>
    \/ /\ adFailed
       /\ ~(\E i \in 1..Len(adRecvd) : adRecvd[i].err = ErrTransport)
       /\ adRecvd' = Append(adRecvd, RecvResult(NoMsg, ErrTransport))
       /\ UNCHANGED <<adSent, adWire, adUnwraps, adFailed>>
       /\ UNCHANGED <<avars, rvars, svars, kvars, tvars, dvars, xvars>>

\* BidiStreamAdapter.Recv(): the next carrier of the transport, or its error
\* (one failing Recv is modelled)
AdapterRecv ==
    \/ /\ ~adFailed
       /\ adWire # << >>
       /\ adWire' = Tail(adWire)
       /\ adUnwraps' = adUnwraps + 1
       /\ LET u == Unmarshal(unwrapMessage(Head(adWire)))
          IN  adRecvd' = Append(adRecvd,
                  IF u.err THEN RecvResult(NoMsg, ErrDecode) ELSE RecvResult(u.msg, "nil"))
       /\ UNCHANGED <<adSent, adFailed>>
       /\ UNCHANGED <<avars, rvars, svars, kvars, tvars, dvars, xvars>>
    \/ /\ adFailed
       /\ ~(\E i \in 1..Len(adRecvd) : adRecvd[i].err = ErrTransport)
       /\ adRecvd' = Append(adRecvd, RecvResult(NoMsg, ErrTransport))
       /\ UNCHANGED <<adSent, adWire, adUnwraps, adFailed>>
       /\ UNCHANGED <<avars, rvars, svars, kvars, tvars, dvars, xvars>>

\* the first write is any envelope or any carrier, the later ones are
\* taken from the samples
NextAdapter ==
    \/ \E e \in (IF adSent = << >> THEN AdapterEnvelopes ELSE LaterEnvelopes) :
          AdapterSend(e)
    \/ \E b \in (IF adSent = << >> THEN PeerBytes ELSE LaterPeerBytes) :
          PeerWrites(b)
    \/ TransportFails
    \/ AdapterRecv

(***************************************************************************)
(* Part G: the reads of the connection table.                              *)
(***************************************************************************)
\* a *PluginConnectionInfo, or nil
NoInfo == [nil |-> TRUE, Name |-> "", ConnectedAt |-> 0, LastMessageAt |-> 0,
           Uptime |-> 0]

\* the latest reading of the clock the reads may see
MaxReadClock == 2

\* a GetPluginInfo that builds an info for every name
GetPluginInfoNeverNil(streams, name, t) ==
    [nil |-> FALSE, Name |-> name, ConnectedAt |-> 0, LastMessageAt |-> 0,
     Uptime |-> t]
\* GetPluginInfo: ms, exists := sm.activeStreams[pluginName]; nil when absent,
\* else the fields of ms and time.Since(ms.createdAt), where t is the
\* reading of time.Now() that time.Since makes
GetPluginInfo(streams, name, t) ==
    IF name \notin DOMAIN streams
    THEN NoInfo
    ELSE [nil |-> FALSE,
          Name |-> hname[streams[name]],
          ConnectedAt |-> createdAt[streams[name]],
          LastMessageAt |-> lastMessage[streams[name]],
          Uptime |-> t - createdAt[streams[name]]]

\* what a read returned: the fields of the other reads keep their zero value
ReadResult(op, name) ==
    [op |-> op, name |-> name, connected |-> FALSE, list |-> {}, count |-> 0,
     info |-> NoInfo]
NoRead == ReadResult("none", "")

\* the read of the table that is returning, and what it returns
qread == Object("reads", NoRead)

\* each read holds sm.mu (GetPluginInfo also ms.mu) for its whole body and
\* writes nothing
ReadIsPluginConnected(name) ==
    /\ ext' = Store("reads", [ReadResult("IsPluginConnected", name) EXCEPT
                         !.connected = IsPluginConnected(activeStreams, name)])
    /\ ExtFrame

ReadListConnectedPlugins ==
    /\ ext' = Store("reads", [ReadResult("ListConnectedPlugins", "") EXCEPT
                         !.list = ListConnectedPlugins(activeStreams)])
    /\ ExtFrame

ReadConnectionCount ==
    /\ ext' = Store("reads", [ReadResult("ConnectionCount", "") EXCEPT
                         !.count = ConnectionCount(activeStreams)])
    /\ ExtFrame

\* time.Since reads the clock anew: a reading t not before the last one;
\* for an absent name the call returns before it reads the clock
ReadGetPluginInfo(name) ==
    \E t \in IF name \in DOMAIN activeStreams /\ rclock < MaxReadClock
              THEN rclock..MaxReadClock ELSE {rclock} :
        /\ ext' = Store("reads", [ReadResult("GetPluginInfo", name) EXCEPT
                             !.info = GetPluginInfo(activeStreams, name, t)])
        /\ rclock' = t
        /\ UNCHANGED <<createdAt, lastMessage, touchName>>
        /\ UNCHANGED <<avars, rvars, svars, kvars, dvars, bvars>>

\* a read returns its result to the caller: the frame is gone
ReadReturn ==
    /\ qread # NoRead
    /\ ext' = Drop("reads")
    /\ ExtFrame

\* The stream manager with the readers of its table.  The return of a read
\* touches nothing the other goroutines see and commutes with each of their
\* steps: it is taken before them.
NextReads ==
    \/ qread = NoRead /\ \E c \in RegistryCalls, name \in UsedNames \cup FreshNames :
                             CheckCapacity(c, name)
    \/ qread = NoRead /\ \E c \in RegistryCalls : HandlePluginStream(c)
    \/ qread = NoRead /\ \E c \in RegistryCalls : CancelContext(c)
    \/ qread = NoRead /\ \E name \in PluginNames : ReadIsPluginConnected(name)
    \/ qread = NoRead /\ ReadListConnectedPlugins
    \/ qread = NoRead /\ ReadConnectionCount
    \/ qread = NoRead /\ \E name \in PluginNames : ReadGetPluginInfo(name)
    \/ ReadReturn

(***************************************************************************)
(* Part H: registry.Manager.                                               *)
(***************************************************************************)
\* number of Register and Unregister calls
MaxRegistryOps == 4

\* the names and the providers the host registers
ProviderNames == {"a", "b"}
Providers == {"prov1", "prov2"}

\* a Register that keeps the provider a name already has
ManagerRegisterKeepsExisting(m, name, provider) ==
    IF name \in DOMAIN m
    THEN m
    ELSE [n \in (DOMAIN m) \cup {name} |-> IF n = name THEN provider ELSE m[n]]
\* Register: m.plugins[name] = provider
ManagerRegister(m, name, provider) ==
    [n \in (DOMAIN m) \cup {name} |-> IF n = name THEN provider ELSE m[n]]

\* Unregister: delete(m.plugins, name)
ManagerUnregister(m, name) == [n \in (DOMAIN m) \ {name} |-> m[n]]

\* Get: plugin, exists := m.plugins[name]
ManagerGet(m, name) ==
    IF name \in DOMAIN m
    THEN [provider |-> m[name], err |-> "nil"]
    ELSE [provider |-> "nil", err |-> "plugin not found"]

\* List: the keys of m.plugins
ManagerList(m) == DOMAIN m

\* Count: len(m.plugins)
ManagerCount(m) == Cardinality(DOMAIN m)

\* what a read of the manager returned
ManagerRead(op, name) ==
    [op |-> op, name |-> name, provider |-> "nil", err |-> "nil", list |-> {},
     count |-> 0]

\* registry.New(): an empty map; with it the history of the calls
\* (regLog) and the last Get, List or Count with its result (mread)
InitManager ==
    [plugins |-> << >>, regLog |-> << >>, mread |-> ManagerRead("none", "")]

manager == Object("manager", InitManager)
plugins == manager.plugins
regLog == manager.regLog
mread == manager.mread

New ==
    /\ "manager" \notin DOMAIN ext
    /\ ext' = Store("manager", InitManager)
    /\ ExtFrame

Register(name, provider) ==
    /\ "manager" \in DOMAIN ext
    /\ Len(regLog) < MaxRegistryOps
    /\ ext' = Store("manager",
                 [manager EXCEPT
                     !.plugins = ManagerRegister(plugins, name, provider),
                     !.regLog = Append(regLog, [op |-> "Register", name |-> name,
                                                provider |-> provider])])
    /\ ExtFrame

Unregister(name) ==
    /\ "manager" \in DOMAIN ext
    /\ Len(regLog) < MaxRegistryOps
    /\ ext' = Store("manager",
                 [manager EXCEPT
                     !.plugins = ManagerUnregister(plugins, name),
                     !.regLog = Append(regLog, [op |-> "Unregister", name |-> name,
                                                provider |-> "nil"])])
    /\ ExtFrame

Get(name) ==
    /\ "manager" \in DOMAIN ext
    /\ ext' = Store("manager",
                 [manager EXCEPT
                     !.mread = [ManagerRead("Get", name) EXCEPT
                                   !.provider = ManagerGet(plugins, name).provider,
                                   !.err = ManagerGet(plugins, name).err]])
    /\ ExtFrame

List ==
    /\ "manager" \in DOMAIN ext
    /\ ext' = Store("manager",
                 [manager EXCEPT
                     !.mread = [ManagerRead("List", "") EXCEPT
                                   !.list = ManagerList(plugins)]])
    /\ ExtFrame

Count ==
    /\ "manager" \in DOMAIN ext
    /\ ext' = Store("manager",
                 [manager EXCEPT
                     !.mread = [ManagerRead("Count", "") EXCEPT
                                   !.count = ManagerCount(plugins)]])
    /\ ExtFrame

\* the callers of one Manager; every method holds m.mu for its whole body
NextManager ==
    \/ New
    \/ \E name \in ProviderNames, provider \in Providers : Register(name, provider)
    \/ \E name \in ProviderNames : Unregister(name)
    \/ \E name \in ProviderNames : Get(name)
    \/ List
    \/ Count

(***************************************************************************)
(* Part I: server.Server: Start, Stop, IsRunning and parseAddr.            *)
(***************************************************************************)
\* number of Stop calls made from outside Start
MaxStops == 2

\* the addresses a Server is built with, as sequences of characters:
\* "unix:///s", "unix:/ab", "tcp://h:1", "tcp:h:123", "http://h",
\* "unix://", "tcp://h", ""
ServerAddrs ==
    {<<"u", "n", "i", "x", ":", "/", "/", "/", "s">>,
     <<"u", "n", "i", "x", ":", "/", "a", "b">>,
     <<"t", "c", "p", ":", "/", "/", "h", ":", "1">>,
     <<"t", "c", "p", ":", "h", ":", "1", "2", "3">>,
     <<"h", "t", "t", "p", ":", "/", "/", "h">>,
     <<"u", "n", "i", "x", ":", "/", "/">>,
     <<"t", "c", "p", ":", "/", "/", "h">>,
     <<>>}

NoAddr == <<"-">>

\* parseAddr: len(addr) < 8, scheme := addr[:5], addr[7:] or addr[6:]
parseAddr(a) ==
    IF Len(a) < 8
    THEN [network |-> "", addr |-> << >>, err |-> "invalid address format"]
    ELSE IF SubSeq(a, 1, 5) = <<"u", "n", "i", "x", ":">>
    THEN [network |-> "unix", addr |-> SubSeq(a, 8, Len(a)), err |-> "nil"]
    ELSE IF SubSeq(a, 1, 5) = <<"t", "c", "p", ":", "/">>
    THEN [network |-> "tcp", addr |-> SubSeq(a, 7, Len(a)), err |-> "nil"]
    ELSE [network |-> "", addr |-> << >>, err |-> "unsupported address scheme"]

\* The Server before server.New, and the fields of the Server and of its
\* Start call:
\*   addr         Server.addr
\*   isRunning    Server.isRunning
\*   listener     Server.listener: "nil" or "lis"
\*   grpcServer   Server.grpcServer: "nil" or "srv"
\*   mu           Server.mu: "free", or the caller of the Stop that holds it
\*                ("app": the application, "start": Start)
\*   lisOpen      the socket net.Listen made is open
\*   grpcStopped  GracefulStop was called on the grpc.Server
\*   wpc, wret    Start: where the call is, and what it returned
\*   werr         Start: the error it is about to return
\*   wctxDone     Start: its context is cancelled
\*   serve        the goroutine of Start that runs grpcServer.Serve
\*   errs         the channel errs of Start
\*   stoppc       the Stop call of the application: where it is
\*   stopCalls    history: number of Stop calls of the application that
\*                have returned
InitServer ==
    [addr |-> NoAddr, isRunning |-> FALSE, listener |-> "nil",
     grpcServer |-> "nil", mu |-> "free", lisOpen |-> FALSE,
     grpcStopped |-> FALSE, wpc |-> "new", wret |-> "none", werr |-> "none",
     wctxDone |-> FALSE, serve |-> "none", errs |-> << >>, stoppc |-> "idle",
     stopCalls |-> 0]

server == Object("server", InitServer)
addr == server.addr
isRunning == server.isRunning
listener == server.listener
grpcServer == server.grpcServer
mu == server.mu
lisOpen == server.lisOpen
grpcStopped == server.grpcStopped
wpc == server.wpc
wret == server.wret
werr == server.werr
wctxDone == server.wctxDone
serve == server.serve
errs == server.errs
stoppc == server.stoppc
stopCalls == server.stopCalls

\* IsRunning(): s.isRunning, read under s.mu.RLock()
IsRunning == isRunning

\* a nil pointer dereference in a goroutine ends the whole process
ProcessAlive == serve # "panicked"

\* server.New(addr)
ServerNew(a) ==
    /\ "server" \notin DOMAIN ext
    /\ ext' = Store("server", [InitServer EXCEPT !.addr = a, !.wpc = "idle"])
    /\ ExtFrame

\* Stop from s.grpcServer = nil to its return: the stores made under s.mu
\* after GracefulStop, and the deferred Unlock
StopStores(s) ==
    [s EXCEPT !.grpcServer = "nil",
              !.lisOpen = IF s.listener # "nil" THEN FALSE ELSE @,
              !.listener = "nil",
              !.isRunning = FALSE,
              !.mu = "free"]

\* Stop from s.mu.Lock() on, for a caller that got the lock: it returns at
\* once when the server is not running, else it enters GracefulStop, which
\* stops the grpc.Server and waits, s.mu held
StopLocked(s, caller) ==
    IF ~s.isRunning
    THEN s
    ELSE IF s.grpcServer # "nil"
    THEN [s EXCEPT !.grpcStopped = TRUE, !.mu = caller]
    ELSE StopStores(s)

\* the caller's Stop is in GracefulStop
InGracefulStop(s, caller) == s.mu = caller

\* GracefulStop returns once Serve has returned; Stop then goes on
GracefulStopReturns(s) == s.serve # "serving"

\* the application calls Stop(): up to s.mu.Lock()
StopEnter ==
    /\ "server" \in DOMAIN ext
    /\ ProcessAlive
    /\ stoppc = "idle"
    /\ stopCalls < MaxStops
    /\ ext' = Store("server", [server EXCEPT !.stoppc = "lock"])
    /\ ExtFrame

\* Stop of the application gets s.mu
StopLock ==
    /\ ProcessAlive
    /\ stoppc = "lock"
    /\ mu = "free"
    /\ ext' = Store("server",
                 IF InGracefulStop(StopLocked(server, "app"), "app")
                 THEN [StopLocked(server, "app") EXCEPT !.stoppc = "graceful"]
                 ELSE [StopLocked(server, "app") EXCEPT
                          !.stoppc = "idle", !.stopCalls = @ + 1])
    /\ ExtFrame

\* Stop of the application, from the return of GracefulStop to its own
StopFinish ==
    /\ ProcessAlive
    /\ stoppc = "graceful"
    /\ GracefulStopReturns(server)
    /\ ext' = Store("server", [StopStores(server) EXCEPT
                                  !.stoppc = "idle", !.stopCalls = @ + 1])
    /\ ExtFrame

\* Stop(), called by the application
Stop == StopEnter \/ StopLock \/ StopFinish

\* the context handed to Start is cancelled
CancelStart ==
    /\ "server" \in DOMAIN ext
    /\ ProcessAlive
    /\ ~wctxDone
    /\ ext' = Store("server", [server EXCEPT !.wctxDone = TRUE])
    /\ ExtFrame

\* Start up to s.grpcServer = grpc.NewServer(): parseAddr, net.Listen
\* (listenOk: it succeeds), and the two fields written without the lock
StartListen(listenOk) ==
    /\ ProcessAlive
    /\ wpc = "idle"
    /\ ext' = Store("server",
                 IF parseAddr(addr).err # "nil"
                 THEN [server EXCEPT !.wpc = "returned",
                                     !.wret = "invalid server address"]
                 ELSE IF ~listenOk
                 THEN [server EXCEPT !.wpc = "returned",
                                     !.wret = "failed to listen"]
                 ELSE [server EXCEPT !.wpc = "mark",
                                     !.listener = "lis",
                                     !.grpcServer = "srv",
                                     !.lisOpen = TRUE])
    /\ ExtFrame

\* s.mu.Lock(); s.isRunning = true; s.mu.Unlock(); go func() {...}()
StartMarkRunning ==
    /\ ProcessAlive
    /\ wpc = "mark"
    /\ mu = "free"
    /\ ext' = Store("server", [server EXCEPT !.isRunning = TRUE,
                                             !.serve = "spawned",
                                             !.wpc = "select"])
    /\ ExtFrame

\* select, case <-ctx.Done(): Start goes on to s.Stop() and will return
\* ctx.Err()
StartOnContextDone ==
    /\ ProcessAlive
    /\ wpc = "select"
    /\ wctxDone
    /\ ext' = Store("server", [server EXCEPT !.wpc = "stop",
                                             !.werr = ErrContext])
    /\ ExtFrame

\* select, case err := <-errs: Start goes on to s.Stop() and will return err
StartOnServeError ==
    /\ ProcessAlive
    /\ wpc = "select"
    /\ errs # << >>
    /\ ext' = Store("server", [server EXCEPT !.wpc = "stop",
                                             !.werr = Head(errs),
                                             !.errs = Tail(errs)])
    /\ ExtFrame

\* s.Stop() of Start gets s.mu
StartStopLock ==
    /\ ProcessAlive
    /\ wpc = "stop"
    /\ mu = "free"
    /\ ext' = Store("server",
                 IF InGracefulStop(StopLocked(server, "start"), "start")
                 THEN [StopLocked(server, "start") EXCEPT !.wpc = "graceful"]
                 ELSE [StopLocked(server, "start") EXCEPT !.wpc = "returning"])
    /\ ExtFrame

\* s.Stop() of Start, from the return of GracefulStop to its own
StartStopFinish ==
    /\ ProcessAlive
    /\ wpc = "graceful"
    /\ GracefulStopReturns(server)
    /\ ext' = Store("server", [StopStores(server) EXCEPT !.wpc = "returning"])
    /\ ExtFrame

\* Start returns to its caller
StartReturn ==
    /\ ProcessAlive
    /\ wpc = "returning"
    /\ ext' = Store("server", [server EXCEPT !.wpc = "returned",
                                             !.wret = werr])
    /\ ExtFrame

Start ==
    \/ \E listenOk \in BOOLEAN : StartListen(listenOk)
    \/ StartMarkRunning
    \/ StartOnContextDone
    \/ StartOnServeError
    \/ StartStopLock
    \/ StartStopFinish
    \/ StartReturn

\* The goroutine evaluates s.grpcServer.Serve(lis): it reads the field
\* without the lock, so it finds the server, also while a Stop waits in
\* GracefulStop, or the nil a Stop has stored; Serve on a nil *grpc.Server
\* dereferences it, Serve on a stopped server returns ErrServerStopped,
\* which the goroutine drops.
ServeBegin ==
    /\ serve = "spawned"
    /\ ext' = Store("server",
                 [server EXCEPT
                     !.serve = IF grpcServer = "nil" THEN "panicked"
                               ELSE IF grpcStopped THEN "returned"
                               ELSE "serving"])
    /\ ExtFrame

\* Serve returns nil after GracefulStop
ServeEnds ==
    /\ serve = "serving"
    /\ grpcStopped
    /\ ext' = Store("server", [server EXCEPT !.serve = "returned"])
    /\ ExtFrame

\* Serve fails on its listener: errs <- err
ServeFails ==
    /\ serve = "serving"
    /\ ~grpcStopped
    /\ ext' = Store("server", [server EXCEPT
                                  !.serve = "returned",
                                  !.errs = Append(errs, "serve error")])
    /\ ExtFrame

ServeGoroutine == ServeBegin \/ ServeEnds \/ ServeFails

NextServer ==
    \/ \E a \in ServerAddrs : ServerNew(a)
    \/ Start
    \/ ServeGoroutine
    \/ Stop
    \/ CancelStart

(***************************************************************************)
(* Part J: client.PluginStreamAdapter.Run.                                 *)
(***************************************************************************)
\* number of items (messages, io.EOF, a failure) the peer puts on the stream
MaxRunMsgs == 3

\* the messages of the peer, and what Recv returns for each item
RunMessages == {1, 2}
RunItem(kind, val) == [kind |-> kind, val |-> val]
RunItems ==
    {RunItem("msg", m) : m \in RunMessages}
        \cup {RunItem("EOF", 0), RunItem("error", 0)}

\* psa.handler, when it succeeds: the response to a message
RunResponse(msg) == msg + 10

\* NewPluginStreamAdapter(stream, handler), Run at the top of its loop:
\*   upc, uret   Run: where the loop is, and what it returned
\*   uctxDone    Run: its context is cancelled
\*   uin         the stream: what Recv will return, in order
\*   umsg        msg, and then response, of the current iteration
\*   urecvd      history: the messages Recv returned
\*   ucalls      history: the messages the handler was called with
\*   usent       history: the responses passed to a successful Send
\*   uwritten    history: number of items the peer put on the stream
InitRun ==
    [upc |-> "top", uret |-> "none", uctxDone |-> FALSE, uin |-> << >>,
     umsg |-> 0, urecvd |-> << >>, ucalls |-> << >>, usent |-> << >>,
     uwritten |-> 0]

run == Object("run", InitRun)
upc == run.upc
uret == run.uret
uctxDone == run.uctxDone
uin == run.uin
umsg == run.umsg
urecvd == run.urecvd
ucalls == run.ucalls
usent == run.usent
uwritten == run.uwritten

NewPluginStreamAdapter ==
    /\ "run" \notin DOMAIN ext
    /\ ext' = Store("run", InitRun)
    /\ ExtFrame

\* the peer writes a message, closes its side or breaks the stream
PeerPuts(item) ==
    /\ "run" \in DOMAIN ext
    /\ uwritten < MaxRunMsgs
    /\ \A i \in 1..Len(uin) : uin[i].kind = "msg"
    /\ upc # "returned"
    /\ ext' = Store("run", [run EXCEPT !.uin = Append(uin, item),
                                       !.uwritten = uwritten + 1])
    /\ ExtFrame

\* the context of Run is cancelled
CancelRun ==
    /\ "run" \in DOMAIN ext
    /\ ~uctxDone
    /\ upc # "returned"
    /\ ext' = Store("run", [run EXCEPT !.uctxDone = TRUE])
    /\ ExtFrame

\* select { case <-ctx.Done(): return ctx.Err(); default: }
RunLoopTop ==
    /\ "run" \in DOMAIN ext
    /\ upc = "top"
    /\ ext' = Store("run",
                 IF uctxDone
                 THEN [run EXCEPT !.upc = "returned", !.uret = ErrContext]
                 ELSE [run EXCEPT !.upc = "recv"])
    /\ ExtFrame

\* msg, err := psa.stream.Recv(): nil on io.EOF, "receive error" otherwise
RunRecv ==
    /\ upc = "recv"
    /\ uin # << >>
    /\ ext' = Store("run",
                 IF Head(uin).kind = "msg"
                 THEN [run EXCEPT !.uin = Tail(uin),
                                  !.umsg = Head(uin).val,
                                  !.urecvd = Append(urecvd, Head(uin).val),
                                  !.upc = "handle"]
                 ELSE [run EXCEPT !.uin = Tail(uin),
                                  !.upc = "returned",
                                  !.uret = IF Head(uin).kind = "EOF"
                                           THEN "nil" ELSE "receive error"])
    /\ ExtFrame

\* a Run that answers a failed handler with the message it was given
RunHandleFailureSends(handlerOk) ==
    /\ upc = "handle"
    /\ ext' = Store("run",
                 IF handlerOk
                 THEN [run EXCEPT !.ucalls = Append(ucalls, umsg),
                                  !.umsg = RunResponse(umsg),
                                  !.upc = "send"]
                 ELSE [run EXCEPT !.ucalls = Append(ucalls, umsg),
                                  !.usent = Append(usent, umsg),
                                  !.upc = "returned",
                                  !.uret = "handler error"])
    /\ ExtFrame
\* response, err := psa.handler(ctx, msg) (handlerOk: it returns no error)
RunHandle(handlerOk) ==
    /\ upc = "handle"
    /\ ext' = Store("run",
                 IF handlerOk
                 THEN [run EXCEPT !.ucalls = Append(ucalls, umsg),
                                  !.umsg = RunResponse(umsg),
                                  !.upc = "send"]
                 ELSE [run EXCEPT !.ucalls = Append(ucalls, umsg),
                                  !.upc = "returned",
                                  !.uret = "handler error"])
    /\ ExtFrame

\* psa.stream.Send(response) (sendOk: it succeeds)
RunSend(sendOk) ==
    /\ upc = "send"
    /\ ext' = Store("run",
                 IF sendOk
                 THEN [run EXCEPT !.usent = Append(usent, umsg), !.upc = "top"]
                 ELSE [run EXCEPT !.upc = "returned", !.uret = "send error"])
    /\ ExtFrame

Run ==
    \/ RunLoopTop
    \/ RunRecv
    \/ \E handlerOk \in BOOLEAN : RunHandle(handlerOk)
    \/ \E sendOk \in BOOLEAN : RunSend(sendOk)

NextRun ==
    \/ NewPluginStreamAdapter
    \/ Run
    \/ \E item \in RunItems : PeerPuts(item)
    \/ CancelRun

\* no call dispatched, nothing written to an adapter
InitNoDispatch == dcall = NoMsg /\ dsent = NoMsg
InitNoAdapter ==
    /\ adSent = << >>
    /\ adWire = << >>
    /\ adRecvd = << >>
    /\ adUnwraps = 0
    /\ adFailed = FALSE

\* no read made; no Manager, Server or PluginStreamAdapter built
InitExtras == ext = << >>

vars == <<avars, rvars, svars, kvars, tvars, dvars, bvars, xvars>>

Init ==
    /\ InitAdmission /\ InitRPC /\ InitService /\ InitConnected
    /\ InitTimes /\ InitNoDispatch /\ InitNoAdapter /\ InitExtras

\* the state before any stream is opened
InitHandshake ==
    /\ InitAdmission /\ InitRPC /\ InitService /\ InitUnconnected
    /\ InitTimes /\ InitNoDispatch /\ InitNoAdapter /\ InitExtras

SpecRegistry == Init /\ [][NextRegistry]_vars

SpecReads == Init /\ [][NextReads]_vars

SpecManager == Init /\ [][NextManager]_vars

SpecServer == Init /\ [][NextServer]_vars

SpecRun == Init /\ [][NextRun]_vars

\* Start, its goroutine and a Stop that was called keep running while the
\* process lives; whether Stop is called and the cancellation are up to the
\* application.
FairSpecServer ==
    /\ SpecServer
    /\ WF_vars(Start)
    /\ WF_vars(ServeGoroutine)
    /\ WF_vars(StopLock \/ StopFinish)

SpecAdapter == Init /\ [][NextAdapter]_vars

\* the state in which a goroutine of handleRPCCall starts
InitDispatcher ==
    /\ InitAdmission /\ InitRPC /\ InitService /\ InitConnected
    /\ InitTimes /\ InitDispatch /\ InitNoAdapter /\ InitExtras

SpecDispatch == InitDispatcher /\ [][NextDispatch]_vars

SpecHandshake == InitHandshake /\ [][NextHandshake]_vars

SpecConnect == InitHandshake /\ [][NextConnect]_vars

SpecClient == InitHandshake /\ [][NextClient]_vars

SpecAdmission == Init /\ [][NextAdmission]_vars

\* The Go scheduler runs every runnable goroutine and sync.Mutex is
\* starvation-free, so each started call keeps taking its enabled steps.
FairSpecAdmission ==
    SpecAdmission /\ \A c \in StreamCalls : WF_vars(HandlePluginStream(c))

SpecRPC == Init /\ [][NextRPC]_vars

\* Every goroutine that can take a step eventually takes it; when a
\* context ends is up to the environment.
FairSpecRPC ==
    /\ SpecRPC
    /\ \A c \in RPCCalls : WF_vars(CallRPC(c))
    /\ WF_vars(ListenForMessages)
    /\ WF_vars(HandleRPCCalls)
    /\ \A k \in RPCCalls : WF_vars(HandleRPCCallTask(k))

SpecPlugin == Init /\ [][NextPlugin]_vars

\* The plugin's goroutines keep running: while the loop or a handler
\* goroutine can take a step, one of them does.  Which calls the host writes
\* is up to the host.
FairSpecPlugin ==
    /\ SpecPlugin
    /\ WF_vars(HandleRPCCalls \/ \E k \in RPCCalls : HandleRPCCallTask(k))

SpecRPCFaults == Init /\ [][NextRPCFaults]_vars

\* The same with fair scheduling of the goroutines; the failures themselves
\* (transport failure, contexts ending) stay up to the environment.
FairSpecRPCFaults ==
    /\ SpecRPCFaults
    /\ \A c \in RPCCalls : WF_vars(CallRPC(c))
    /\ WF_vars(ListenForMessages)
    /\ WF_vars(ListenRecvFails)
    /\ WF_vars(HandleRPCCalls)
    /\ WF_vars(PluginRecvFails)
    /\ \A k \in RPCCalls : WF_vars(HandleRPCCallTask(k))

(***************************************************************************)
(* Part A: properties of the admission controller.                         *)
(***************************************************************************)
Started == {c \in StreamCalls : hpc[c] # "idle"}
Attached == {c \in StreamCalls : hpc[c] \in {"connect", "connectFailed", "wait"}}

\* C1: under every interleaving of HandlePluginStream calls the number of
\* entries of activeStreams never exceeds maxConnections.
C1_NeverOverAdmitted == Cardinality(DOMAIN activeStreams) <= MaxConnections

\* C2: a call whose capacity check runs while the table holds maxConnections
\* entries or more returns ErrMaxConnectionsReached in that step, with its
\* context unfired, leaves activeStreams unchanged and invokes neither
\* OnPluginConnect nor OnPluginDisconnect.
C2_RejectedStep ==
    \A c \in StreamCalls :
        (/\ hpc[c] = "idle"
         /\ hpc'[c] # "idle"
         /\ Cardinality(DOMAIN activeStreams) >= MaxConnections)
        => /\ hpc'[c] = "done"
           /\ hret'[c] = ErrMaxConnectionsReached
           /\ activeStreams' = activeStreams
           /\ connectCalls' = connectCalls
           /\ disconnectCalls' = disconnectCalls
C2_RejectedState ==
    \A c \in StreamCalls :
        hret[c] = ErrMaxConnectionsReached
        => /\ hpc[c] = "done"
           /\ ~hctxDone[c]
           /\ connectCalls[c] = 0
           /\ disconnectCalls[c] = 0
           /\ \A n \in DOMAIN activeStreams : activeStreams[n] # c
C2_RejectAtCapacity == [][C2_RejectedStep]_vars /\ []C2_RejectedState
C2_Witness == \E c \in StreamCalls : hret[c] = ErrMaxConnectionsReached

\* C3: while no more than maxConnections calls, with pairwise distinct
\* names, have been made, none is rejected, and once all of them are inserted
\* ConnectionCount() is their number and ListConnectedPlugins() their names;
\* and a capacity check that runs below the limit, such as one after a detach
\* freed a slot of a full table, admits the call.
C3_DistinctNames ==
    \A c, d \in Started : c # d => hname[c] # hname[d]
C3_AllAdmitted ==
    (Cardinality(Started) <= MaxConnections /\ C3_DistinctNames)
    => /\ \A c \in Started : hret[c] # ErrMaxConnectionsReached
       /\ (Started = Attached)
          => /\ ConnectionCount(activeStreams) = Cardinality(Started)
             /\ ListConnectedPlugins(activeStreams) = {hname[c] : c \in Started}
C3_AdmittedStep ==
    \A c \in StreamCalls :
        (/\ hpc[c] = "idle"
         /\ hpc'[c] # "idle"
         /\ Cardinality(DOMAIN activeStreams) < MaxConnections)
        => /\ hpc'[c] = "insert"
           /\ hret'[c] = ErrNone
C3_AdmitBelowLimit == []C3_AllAdmitted /\ [][C3_AdmittedStep]_vars
C3_Witness ==
    /\ \A c \in StreamCalls : connectResult[c] # "err"
    /\ \A c \in StreamCalls : hret[c] # ErrMaxConnectionsReached
    /\ \E d \in StreamCalls : hret[d] = ErrContext
    /\ \E c \in StreamCalls :
          /\ hsawFull[c]
          /\ hpc[c] = "wait"
          /\ \A d \in Started \ {c} : hname[d] # hname[c]
          /\ IsPluginConnected(activeStreams, hname[c])
    /\ ConnectionCount(activeStreams) = MaxConnections

\* C4: IsPluginConnected(name) is true whenever an admitted call for the name
\* is blocked on its unfired context, and false when no call for the name is
\* in progress.
C4_ReflectsAttachedSet ==
    \A n \in PluginNames :
        /\ (\E c \in Started : hname[c] = n /\ hpc[c] = "wait" /\ ~hctxDone[c])
           => IsPluginConnected(activeStreams, n)
        /\ (\A c \in Started : hname[c] = n => hpc[c] = "done")
           => ~IsPluginConnected(activeStreams, n)

\* C5: once every call has returned, ConnectionCount() is 0 and
\* ListConnectedPlugins() is empty.
C5_EmptyAfterAllReturned ==
    (\A c \in StreamCalls : hpc[c] \in {"idle", "done"})
    => /\ ConnectionCount(activeStreams) = 0
       /\ ListConnectedPlugins(activeStreams) = {}
C5_Witness ==
    /\ \A c \in StreamCalls : hpc[c] = "done"
    /\ \E c \in StreamCalls : hret[c] = ErrContext
    /\ \E c \in StreamCalls : hret[c] = ErrConnectHandler
    /\ \E c, d \in StreamCalls :
          c # d /\ hname[c] = hname[d] /\ connectCalls[c] = 1 /\ connectCalls[d] = 1

\* C6: when OnPluginConnect fails the call removes the entry of its name,
\* does not call OnPluginDisconnect, and returns that error without waiting
\* for its context.
C6_AbortStep ==
    \A c \in StreamCalls :
        (hpc[c] = "connectFailed" /\ hpc'[c] # "connectFailed")
        => /\ ~IsPluginConnected(activeStreams', hname[c])
           /\ hpc'[c] = "done"
           /\ hret'[c] = ErrConnectHandler
           /\ disconnectCalls' = disconnectCalls
C6_AbortState ==
    \A c \in StreamCalls :
        /\ connectResult[c] = "err"
           => /\ hpc[c] \in {"connectFailed", "done"}
              /\ disconnectCalls[c] = 0
              /\ hpc[c] = "done" => hret[c] = ErrConnectHandler
        /\ hpc[c] = "connectFailed" => ENABLED AbortOnConnectError(c)
C6_ConnectFailureAborts == [][C6_AbortStep]_vars /\ []C6_AbortState
C6_Witness ==
    \E c \in StreamCalls :
        /\ hret[c] = ErrConnectHandler
        /\ ~hctxDone[c]
        /\ ~IsPluginConnected(activeStreams, hname[c])

\* C7: a call whose OnPluginConnect succeeded does not leave its wait while
\* its context is unfired; once the context ended it removes the entry of its
\* name, then calls OnPluginDisconnect exactly once, and returns the
\* context's error.
C7_AttachedState ==
    \A c \in StreamCalls :
        /\ disconnectCalls[c] <= 1
        /\ disconnectCalls[c] <= connectCalls[c]
        /\ connectResult[c] = "ok"
           => /\ ~hctxDone[c] => hpc[c] = "wait"
              /\ hpc[c] # "done" => disconnectCalls[c] = 0
              /\ hpc[c] = "done" => /\ hret[c] = ErrContext
                                    /\ disconnectCalls[c] = 1
C7_DetachSteps ==
    \A c \in StreamCalls :
        /\ (hpc[c] = "wait" /\ hpc'[c] # "wait")
           => /\ hctxDone[c]
              /\ hpc'[c] = "disconnect"
              /\ ~IsPluginConnected(activeStreams', hname[c])
              /\ disconnectCalls' = disconnectCalls
        /\ (hpc[c] = "disconnect" /\ hpc'[c] # "disconnect")
           => /\ hpc'[c] = "done"
              /\ disconnectCalls'[c] = 1
              /\ activeStreams' = activeStreams
\* C7, the return: no call stays in its wait once its context ended, nor in
\* its detach; the steps above lead it from there to its return, whose value
\* the state property fixes as the context's error.
C7_Returns ==
    \A c \in StreamCalls :
        []<>(~(hpc[c] = "wait" /\ hctxDone[c]) /\ hpc[c] # "disconnect")
C7_DetachAfterContext == []C7_AttachedState /\ [][C7_DetachSteps]_vars /\ C7_Returns
C7_Witness ==
    \E c \in StreamCalls :
        /\ connectResult[c] = "ok"
        /\ hpc[c] = "done"
        /\ disconnectCalls[c] = 1
        /\ hret[c] = ErrContext

(***************************************************************************)
(* Part B: properties of the correlation layer and the dispatcher.         *)
(***************************************************************************)
\* the invocations whose CallRPC has sent its envelope and not yet returned
InFlight == {c \in RPCCalls : cpc[c] \in {"register", "wait", "cleanup"}}

\* C8: on a healthy stream, with ListenForMessages and HandleRPCCalls
\* running and scheduling fair, every CallRPC for a method of the method
\* table whose handler succeeds eventually returns the handler's result with
\* a nil error, unless the caller's context ends first.
C8_CallReturnsResult ==
    \A c \in RPCCalls :
        (cpc[c] = "register" /\ pathBase(cmethod[c]) = MethodEcho)
        ~> \/ cpc[c] = "done" /\ cret[c] = [payload |-> cpayload[c], err |-> "nil"]
           \/ cctxDone[c]

\* C9: the payload a CallRPC returns is the payload of an RpcResponse that
\* carries the request ID the call sent and that answers this call: a
\* response for one call is never delivered to another call's waiter.
C9_ResponseCorrelated ==
    \A c \in RPCCalls :
        (cpc[c] \in {"cleanup", "done"} /\ cret[c].err = "nil")
        => /\ cfrom[c].kind = "RpcResponse"
           /\ cfrom[c].requestId = creqId[c]
           /\ cret[c].payload = cfrom[c].payload
           /\ cfrom[c].call = c

\* C10: the request IDs of the CallRPC invocations in flight on the stream
\* are pairwise distinct, also when two are issued within one clock reading.
C10_RequestIDsDistinct ==
    \A c, d \in InFlight : c # d => creqId[c] # creqId[d]

\* C11: CallRPC registers the pending call before it sends the RpcCall
\* envelope: at every moment after the send and before the call ends, the
\* request ID has its entry in pendingCalls.
C11_RegisteredBeforeSend ==
    \A c \in RPCCalls :
        cpc[c] \in {"register", "wait"} => creqId[c] \in DOMAIN pendingCalls

\* C12: a CallRPC whose context ends with no response delivered returns the
\* context's error, and whenever a CallRPC has returned, for whatever
\* reason, pendingCalls has no entry for the request ID of that call.
C12_CancelledReturn ==
    \A c \in RPCCalls :
        (cpc[c] = "wait" /\ cctxDone[c] /\ respChan[c] = << >>)
        => (cpc'[c] # "wait" => cret'[c] = [payload |-> << >>, err |-> ErrContext])
C12_NoEntryOnceReturned ==
    \A c \in RPCCalls : cpc[c] = "done" => creqId[c] \notin DOMAIN pendingCalls
C12_ReturnsCleaned ==
    [][C12_CancelledReturn]_vars /\ []C12_NoEntryOnceReturned

\* C13: an RpcResponse whose requestId has no entry in pendingCalls is
\* dropped; it does not make ListenForMessages return.
C13_UnknownResponseStep ==
    (/\ lpc = "recv"
     /\ ~lctxDone
     /\ toHost # << >>
     /\ toHost' = Tail(toHost)
     /\ Head(toHost).kind = "RpcResponse"
     /\ Head(toHost).requestId \notin DOMAIN pendingCalls)
    => lpc' = "recv"
C13_UnknownResponseDropped == [][C13_UnknownResponseStep]_vars

\* C14: delivering a response never blocks the receive loop: whenever
\* handleResponse has found the channel, its delivery step can be taken at
\* once, whatever the waiter does and whatever the slot holds, and it ends
\* the handling of the message: the loop is back at its select, which can
\* be taken at once too.
C14_CanDeliver ==
    /\ lpc = "deliver" => ENABLED DeliverResponse
    /\ lpc = "top" => ENABLED ListenLoopTop
C14_DeliverStep == (lpc = "deliver" /\ lpc' # "deliver") => lpc' = "top"
C14_DeliveryNeverBlocks == []C14_CanDeliver /\ [][C14_DeliverStep]_vars
\* a second response is delivered while the first still fills the slot
C14_Witness == lpc = "deliver" /\ Len(respChan[lchan]) = 1

\* C15: when the plugin answers a call with an Error envelope, the CallRPC
\* of that call returns an error carrying the envelope's code instead of
\* staying blocked until its own context ends (as long as ListenForMessages
\* is running to receive the envelope).
C15_ErrorReachesCaller ==
    \A c \in RPCCalls :
        (cpc[c] = "wait" /\ task[c].pc = "sending" /\ task[c].msg.kind = "Error")
        ~> \/ /\ cpc[c] = "done"
              /\ cret[c].err \in {"RPC_ERROR", "MARSHAL_ERROR", "Unimplemented"}
           \/ cctxDone[c]
           \/ lpc = "returned"

\* C16: when ListenForMessages exits because Recv failed or its context
\* ended, every CallRPC still waiting on the stream is resolved at that
\* point: none is left waiting on an empty slot.
C16_ExitStep ==
    (lpc # "returned" /\ lpc' = "returned"
        /\ lret' \in {ErrContext, "failed to receive message from plugin"})
    => \A c \in RPCCalls :
          (cpc[c] = "wait" /\ respChan[c] = << >>)
          => (cpc'[c] # "wait" \/ respChan'[c] # << >>)
C16_PendingResolvedAtExit == [][C16_ExitStep]_vars

\* C17: ListenForMessages returns an error once Recv fails, and returns
\* once its context has ended even when no further message arrives.
C17_ListenReturns ==
    /\ (streamFailed /\ lpc = "recv") ~> (lpc = "returned" /\ lret # "none")
    /\ lctxDone ~> lpc = "returned"

\* C20: for every RpcCall whose method, reduced to its last segment, is not
\* in the method table, the dispatcher sends an Error envelope with the
\* Unimplemented code and a message naming the requested method, and no
\* RpcResponse exists for that call.
MethodNames == {ServiceMethods[i].MethodName : i \in 1..Len(ServiceMethods)}
UnknownMethod(c) == cpc[c] # "idle" /\ pathBase(cmethod[c]) \notin MethodNames
C20_UnknownMethodUnimplemented ==
    \A c \in RPCCalls :
        UnknownMethod(c)
        => /\ task[c].pc = "sending"
              => task[c].msg = [kind |-> "Error", code |-> "Unimplemented",
                                message |-> <<"unknown method", cmethod[c]>>,
                                call |-> c]
           /\ \A i \in 1..Len(toHost) :
                 toHost[i].call = c => toHost[i].kind = "Error"
           /\ lmsg.kind = "RpcResponse" => lmsg.call # c
           /\ \A d \in RPCCalls : \A i \in 1..Len(respChan[d]) : respChan[d][i].call # c
C20_Witness ==
    \E c \in RPCCalls :
        /\ UnknownMethod(c)
        /\ \E i \in 1..Len(toHost) :
              toHost[i].call = c /\ toHost[i].code = "Unimplemented"

(***************************************************************************)
(* Part C: properties of the opening of a stream.                          *)
(***************************************************************************)
\* the PluginStream invocations whose first Recv returned a message that
\* is not a Register
NotRegisterFirst ==
    {g \in StreamCalls : spc[g] # "recv" /\ ~sfirst[g].err
                         /\ sfirst[g].msg.kind # "Register"}

\* C18: a stream whose first message is not a Register never becomes
\* attached: PluginStream returns InvalidArgument without calling
\* HandlePluginStream (no table entry, no OnPluginConnect), every
\* HandlePluginStream call of the service stems from a Register carrying
\* its name, and stream.NewStreamManager returns an error and no manager.
C18_ServiceState ==
    /\ \A g \in NotRegisterFirst :
          /\ spc[g] = "returned"
          /\ sret[g].code = "InvalidArgument"
          /\ scall[g] = 0
    /\ \A c \in StreamCalls :
          hpc[c] # "idle"
          => \E g \in StreamCalls :
                /\ scall[g] = c
                /\ ~sfirst[g].err
                /\ sfirst[g].msg.kind = "Register"
                /\ sfirst[g].msg.name = hname[c]
C18_ServiceStep ==
    \A g \in StreamCalls :
        (spc[g] = "recv" /\ spc'[g] # "recv"
            /\ ~sfirst'[g].err /\ sfirst'[g].msg.kind # "Register")
        => UNCHANGED <<activeStreams, hpc, connectCalls>>
C18_ManagerState ==
    (smErr # "none" /\ ~smFirst.err /\ smFirst.msg.kind # "Register")
    => (~smBuilt /\ smErr = "first message must be PluginRegister")
C18_NotRegisterNeverAttached ==
    /\ []C18_ServiceState
    /\ [][C18_ServiceStep]_vars
    /\ []C18_ManagerState
C18_Witness ==
    /\ NotRegisterFirst # {}
    /\ activeStreams # << >>
    /\ peer = "foreign"
    /\ smErr = "first message must be PluginRegister"

\* C19: NewPluginStreamClient sends exactly one Register{name, version}
\* envelope, and it is the first message the plugin writes on the stream:
\* a client exists only with its Register at the head of the stream or
\* already taken by the host as the first message, and no other Register
\* is ever on the stream.  When that send fails there is no client and
\* client.New fails with "failed to create plugin stream client": a stream
\* of the library without a Register belongs to a New that has not called
\* Send yet, or to one whose Send failed and which returns that error.
RegisterOfClient == RegisterMsg(ClientPluginName, ClientPluginVersion)
C19_RegisterFirst ==
    pscBuilt
    => /\ registerSends = 1
       /\ \/ smFirst = NoRecv /\ toHost # << >> /\ Head(toHost) = RegisterOfClient
          \/ smFirst = RecvMsg(RegisterOfClient)
C19_RegisterOnce ==
    /\ registerSends <= 1
    /\ \A i \in 1..Len(toHost) :
          toHost[i].kind = "Register" => (i = 1 /\ smFirst = NoRecv)
C19_SendFailure ==
    (peer = "library" /\ smFirst # RecvMsg(RegisterOfClient)
        /\ \A i \in 1..Len(toHost) : toHost[i].kind # "Register")
    => /\ ~pscBuilt
       /\ IF registerSends = 0
          THEN newRet = NewNotReturned /\ newFrame.pc = "register"
          ELSE /\ registerSends = 1
               /\ LET failure == NewError("failed to create plugin stream client",
                                          "failed to send registration")
                  IN  \/ newRet = failure
                      \/ /\ newRet = NewNotReturned
                         /\ newFrame = NewFrame("return", failure)
C19_ClientReturned == newRet = NewNil => pscBuilt
C19_RegisterSentFirst ==
    C19_RegisterFirst /\ C19_RegisterOnce /\ C19_SendFailure
        /\ C19_ClientReturned
\* the plugin has written a reply, after the Register the host took first
C19_Witness ==
    /\ pscBuilt
    /\ registerSends = 1
    /\ smFirst = RecvMsg(RegisterOfClient)
    /\ toHost # << >>


(***************************************************************************)
(* The plugin's dispatcher: HandleRPCCalls and its handler goroutines.     *)
(***************************************************************************)
\* the handler goroutines that are inside psc.stream.Send
InSend == {k \in RPCCalls : task[k].pc = "sending"}

\* the number of envelopes of call k in the queue q
Written(q, k) == Cardinality({i \in 1..Len(q) : q[i].call = k})

\* C22: every call the dispatcher received gets exactly one envelope: a
\* goroutine writes once and never again, and what it writes is an
\* RpcResponse with the call's requestId and the serialized result of the
\* handler when the handler and the serialization succeeded (the method is
\* the one whose handler returns its request, and the payload decodes), and
\* otherwise an Error envelope.
C22_WriteStep ==
    \A k \in RPCCalls :
        /\ (task[k].pc = "done" => task'[k].pc = "done")
        /\ task[k].pc # "sending" => Written(toHost', k) <= Written(toHost, k)
        /\ (task[k].pc = "sending" /\ task'[k].pc = "done") =>
               /\ toHost' = Append(toHost, task[k].msg)
               /\ task[k].msg.call = k
               /\ Written(toHost, k) = 0
        /\ (task[k].pc = "run" /\ task'[k].pc # "run") =>
               /\ task'[k].pc = "sending"
               /\ task'[k].msg.kind \in {"RpcResponse", "Error"}
               /\ task'[k].msg.kind = "RpcResponse" <=>
                      /\ pathBase(task[k].msg.method) = MethodEcho
                      /\ ~UnmarshalMessage(task[k].msg.payload).err
               /\ task'[k].msg.kind = "RpcResponse" =>
                      /\ task'[k].msg.requestId = task[k].msg.requestId
                      /\ task'[k].msg.payload = task[k].msg.payload
C22_OneEnvelopePerCall == [][C22_WriteStep]_vars
\* two calls were answered, one with a response and one with an Error
C22_Witness ==
    /\ \A k \in RPCCalls : task[k].pc = "done"
    /\ \E i, j \in 1..Len(toHost) :
           toHost[i].kind = "RpcResponse" /\ toHost[j].kind = "Error"

\* C25: at no time are two handler goroutines inside stream.Send.
C25_WritesSerialized == Cardinality(InSend) <= 1

\* the calls whose handling failed: the reply of the goroutine is an Error
\* envelope, whatever made it one (the method is unknown, the handler or
\* its decoding of the payload returned an error, or the result could not
\* be serialized)
FailedCall(k) ==
    \/ task[k].pc = "sending" /\ task[k].msg.kind = "Error"
    \/ \E i \in 1..Len(toHost) : toHost[i].call = k /\ toHost[i].kind = "Error"
\* the RpcCall of call j is on the stream and is one its handler answers
ValidCallQueued(j) ==
    \E i \in 1..Len(toPlugin) :
        toPlugin[i].call = j /\ handleRPCCall(toPlugin[i]).kind = "RpcResponse"
\* a valid call j is on its way: on the stream, or in its goroutine, which
\* has not yet returned from Send
OnItsWay(j) ==
    \/ ValidCallQueued(j)
    \/ task[j].pc = "run" /\ handleRPCCall(task[j].msg).kind = "RpcResponse"
    \/ task[j].pc = "sending" /\ task[j].msg.kind = "RpcResponse"
\* the RpcResponse of call j has been written
Answered(j) ==
    \E i \in 1..Len(toHost) : toHost[i].call = j /\ toHost[i].kind = "RpcResponse"
\* once a call has failed the loop has not returned, it takes its next step,
\* and the goroutines of the other calls run and write
C24_LoopState ==
    (\E k \in RPCCalls : FailedCall(k)) =>
        /\ ppc \in {"top", "recv"}
        /\ ppc = "top" => ENABLED PluginLoopTop
        /\ (ppc = "recv" /\ toPlugin # << >>) => ENABLED PluginRecv
        /\ \A j \in RPCCalls :
               /\ task[j].pc = "run" => ENABLED RunHandler(j)
               /\ task[j].pc = "sending" => ENABLED SendReply(j)
\* a failure stays a failure, and a valid call ends its way only with its
\* RpcResponse written
C24_AnswerStep ==
    \A j \in RPCCalls :
        /\ FailedCall(j) => FailedCall(j)'
        /\ (OnItsWay(j) /\ ~OnItsWay(j)') => (~Answered(j) /\ Answered(j)')
\* no valid call stays on its way for ever while another call has failed
C24_LaterAnswered ==
    \A j \in RPCCalls :
        []<>~((\E k \in RPCCalls \ {j} : FailedCall(k)) /\ OnItsWay(j))
\* C24: a failed call (unknown method, handler error, payload that does not
\* decode, result that does not serialize) does not end HandleRPCCalls: the
\* loop keeps receiving, and a valid RpcCall that is on the stream with the
\* failure or after it is dispatched and answered with its RpcResponse.
C24_FailureKeepsLoop ==
    []C24_LoopState /\ [][C24_AnswerStep]_vars /\ C24_LaterAnswered
\* the result of the first call could not be serialized and the call was
\* answered with MARSHAL_ERROR; the valid call that followed it has been
\* received, dispatched and answered after it
C24_Witness ==
    /\ Len(toHost) = 2
    /\ toHost[1].call = 1 /\ toHost[1].kind = "Error"
    /\ toHost[1].code = "MARSHAL_ERROR"
    /\ toHost[2].call = 2 /\ toHost[2].kind = "RpcResponse"
    /\ ppc = "recv"

\* C26: while a handler has not returned, HandleRPCCalls receives the next
\* RpcCall of the stream and the goroutine of every other call runs and
\* writes, so a later call can be answered before an earlier one.
C26_SlowHandlerDoesNotBlock ==
    \A k \in RPCCalls : task[k].pc = "run" =>
        /\ ppc = "top" => ENABLED PluginLoopTop
        /\ (ppc = "recv" /\ toPlugin # << >>) => ENABLED PluginRecv
        /\ \A j \in RPCCalls \ {k} :
               /\ task[j].pc = "run" => ENABLED RunHandler(j)
               /\ task[j].pc = "sending" => ENABLED SendReply(j)
\* the second call is answered while the handler of the first still runs
C26_Witness ==
    /\ task[1].pc = "run"
    /\ task[2].pc = "done"
    /\ toHost # << >>
    /\ toHost[Len(toHost)].call = 2

\* C27: once the context of HandleRPCCalls is cancelled, HandleRPCCalls
\* returns, also when no further message arrives on the stream.
C27_ReturnsAfterCancel == pctxDone ~> ppc = "returned"

(***************************************************************************)
(* The timestamps of the stream manager.                                   *)
(***************************************************************************)
\* C30: UpdateLastMessageTime(name) changes nothing of the registry when
\* name is not attached; when it is, only the lastMessage of the stream
\* attached under name changes: the attached names, the createdAt of every
\* stream and the lastMessage of every other stream stay as they were.
C30_TouchStep ==
    rclock' # rclock =>
        /\ activeStreams' = activeStreams
        /\ closeCount' = closeCount
        /\ createdAt' = createdAt
        /\ touchName' \notin DOMAIN activeStreams => lastMessage' = lastMessage
        /\ touchName' \in DOMAIN activeStreams =>
               /\ lastMessage'[activeStreams[touchName']] = rclock'
               /\ \A c \in StreamCalls \ {activeStreams[touchName']} :
                      lastMessage'[c] = lastMessage[c]
C30_TouchFrame == [][C30_TouchStep]_vars
\* with two streams attached, one has been updated after its creation
C30_Witness ==
    /\ Cardinality(DOMAIN activeStreams) = 2
    /\ touchName \in DOMAIN activeStreams
    /\ lastMessage[activeStreams[touchName]] > createdAt[activeStreams[touchName]]
    /\ \E n \in DOMAIN activeStreams :
           lastMessage[activeStreams[n]] = createdAt[activeStreams[n]]

(***************************************************************************)
(* handleRPCCall: method resolution and error codes.                       *)
(***************************************************************************)
\* the last segment of a name whose segments are separated by slashes or dots
LastSeparator(name) ==
    LET idx == {i \in 1..Len(name) : name[i] \in {"/", "."}}
    IN  IF idx = {} THEN 0 ELSE CHOOSE i \in idx : \A j \in idx : j <= i
FinalSegment(name) == SubSeq(name, LastSeparator(name) + 1, Len(name))
\* a fully-qualified name: no segment is empty
Qualified(name) ==
    /\ name # << >>
    /\ name[1] \notin {"/", "."}
    /\ name[Len(name)] \notin {"/", "."}
    /\ \A i \in 1..(Len(name) - 1) :
           ~(name[i] \in {"/", "."} /\ name[i + 1] \in {"/", "."})

\* C21: a call whose method value is a fully-qualified name that ends, after
\* its last slash or dot, in a registered method name is resolved to that
\* method: it is not answered as an unknown method.
C21_QualifiedNameResolves ==
    (/\ dsent # NoMsg
     /\ Qualified(dcall.method)
     /\ FinalSegment(dcall.method) \in MethodNames) =>
        ~(dsent.kind = "Error" /\ dsent.code = "Unimplemented")

\* C23: an Error envelope sent in place of a response has the code
\* MARSHAL_ERROR exactly when the payload of the call could not be
\* deserialized or the result of the handler could not be serialized, and
\* the code RPC_ERROR exactly when the handler itself failed.
C23_ErrorCodes ==
    (dsent # NoMsg /\ dsent.kind = "Error" /\ dsent.code # "Unimplemented") =>
        LET serialization ==
                \/ UnmarshalMessage(dcall.payload).err
                \/ pathBase(dcall.method) = MethodInvalid
        IN  /\ dsent.code = "MARSHAL_ERROR" <=> serialization
            /\ dsent.code = "RPC_ERROR" <=> ~serialization

(***************************************************************************)
(* BidiStreamAdapter.                                                      *)
(***************************************************************************)
\* C28: the i-th Recv returns, for a carrier that Send produced, the
\* envelope that was handed to Send, equal in its case and in every field,
\* and without an error: envelopes arrive unchanged and in the order sent.
C28_RoundTrip ==
    \A i \in 1..Len(adRecvd) :
        (adRecvd[i].err # ErrTransport /\ adSent[i].msg # NoMsg) =>
            adRecvd[i] = RecvResult(adSent[i].msg, "nil")
\* two envelopes of different cases were sent and received
C28_Witness ==
    /\ Len(adRecvd) = 2
    /\ \A i \in 1..2 : adRecvd[i].err = "nil" /\ adSent[i].msg # NoMsg
    /\ adRecvd[1].msg.kind = "RpcCall" /\ adRecvd[1].msg.payload # << >>
    /\ adRecvd[2].msg.kind = "Error"

\* bytes that are a serialized message whose known cases are serialized
\* messages too
WellFormed(bytes) ==
    /\ ParseFields(bytes).ok
    /\ \A i \in 1..Len(ParseFields(bytes).fields) :
           ParseFields(bytes).fields[i].tag \in 1..4 =>
               ParseFields(ParseFields(bytes).fields[i].val).ok

\* C29: Recv returns a decode error and no envelope for a carrier whose
\* bytes are not a valid envelope; when the transport fails it returns the
\* error of the transport and no envelope, and unwrap has been called
\* only for the carriers the transport delivered.
C29_RecvState ==
    /\ \A i \in 1..Len(adRecvd) :
           /\ (adRecvd[i].err # ErrTransport /\ ~WellFormed(adSent[i].data)) =>
                  adRecvd[i] = RecvResult(NoMsg, ErrDecode)
           /\ adRecvd[i].err = ErrTransport => adFailed /\ adRecvd[i].msg = NoMsg
    /\ adUnwraps = Cardinality({i \in 1..Len(adRecvd) : adRecvd[i].err # ErrTransport})
C29_RecvStep ==
    (adFailed /\ adRecvd' # adRecvd) =>
        /\ adRecvd' = Append(adRecvd, RecvResult(NoMsg, ErrTransport))
        /\ adUnwraps' = adUnwraps
        /\ adWire' = adWire
C29_RecvErrors == []C29_RecvState /\ [][C29_RecvStep]_vars
\* a Recv failed to decode a carrier, and a later one returned the error of
\* the transport
C29_Witness ==
    /\ Len(adRecvd) = 2
    /\ adRecvd[1].err = ErrDecode
    /\ adRecvd[2].err = ErrTransport


(***************************************************************************)
(* Claims on the detach of replaced entries.                               *)
(***************************************************************************)
\* the ManagedStream the call c created is the one found under its name
OwnsEntry(c) ==
    /\ hname[c] \in DOMAIN activeStreams
    /\ activeStreams[hname[c]] = c

\* C34: when the context of a call ends while a later call of the same name
\* is attached, the step that unregisters the earlier call leaves every
\* entry created by another call in activeStreams and leaves that entry's
\* close signal unfired.
C34_EarlierEndStep ==
    \A c \in StreamCalls :
        (hpc[c] = "wait" /\ hpc'[c] = "disconnect")
        => \A d \in StreamCalls \ {c} :
              OwnsEntry(d)
              => /\ hname[d] \in DOMAIN activeStreams'
                 /\ activeStreams'[hname[d]] = d
                 /\ closeCount'[d] = closeCount[d]
C34_EarlierEndKeepsLater == [][C34_EarlierEndStep]_vars

\* C35: the close signal of a ManagedStream is never fired twice, and it has
\* been fired exactly once when the call that created it has returned.
C35_ClosedExactlyOnce ==
    \A c \in StreamCalls :
        /\ closeCount[c] <= 1
        /\ (hpc[c] = "done" /\ hret[c] \in {ErrContext, ErrConnectHandler})
           => closeCount[c] = 1


(***************************************************************************)
(* Claims on the service entry point after the first message.              *)
(***************************************************************************)
\* the PluginStream invocations whose first Recv returned a Register with an
\* empty plugin name
EmptyNameFirst ==
    {g \in StreamCalls : spc[g] # "recv" /\ ~sfirst[g].err
                         /\ sfirst[g].msg.kind = "Register"
                         /\ sfirst[g].msg.name = ""}

\* C36: a Register with an empty plugin name makes PluginStream return
\* InvalidArgument "plugin name cannot be empty" without a call of
\* HandlePluginStream: the table never holds an entry named "", no
\* HandlePluginStream call (and so no callback) runs for "", and the step
\* that receives such a Register changes neither the table nor any call.
C36_ServiceState ==
    /\ \A g \in EmptyNameFirst :
          /\ spc[g] = "returned"
          /\ sret[g] = [code |-> "InvalidArgument",
                        message |-> "plugin name cannot be empty"]
          /\ scall[g] = 0
    /\ "" \notin DOMAIN activeStreams
    /\ \A c \in StreamCalls : hpc[c] # "idle" => hname[c] # ""
C36_ServiceStep ==
    \A g \in StreamCalls :
        (spc[g] = "recv" /\ g \in EmptyNameFirst')
        => UNCHANGED <<activeStreams, hpc, hname, connectCalls, disconnectCalls>>
C36_EmptyNameRejected == []C36_ServiceState /\ [][C36_ServiceStep]_vars
\* an empty-name Register was turned away while another plugin is attached
C36_Witness ==
    /\ EmptyNameFirst # {}
    /\ activeStreams # << >>
    /\ \E c \in StreamCalls : connectCalls[c] = 1

\* C37: PluginStream returns the Internal status only when admission
\* failed, that is when HandlePluginStream returned the capacity error or
\* the connect handler's error; a stream that was attached and ended by the
\* cancellation of its context ends with the context's error.
C37_InternalOnlyOnAdmissionFailure ==
    \A g \in StreamCalls :
        (spc[g] = "returned" /\ scall[g] # 0)
        => IF hret[scall[g]] \in {ErrMaxConnectionsReached, ErrConnectHandler}
           THEN sret[g].code = "Internal"
           ELSE sret[g].code = "Canceled"


(***************************************************************************)
(* Claims on client.New and Client.Close.                                  *)
(***************************************************************************)
\* C32: when GetToken of the configured token provider fails, client.New
\* returns "failed to validate token provider" with no connection created:
\* the stream creator was not invoked, no Register was sent and no client
\* exists.
C32_TokenFailureBeforeConnection ==
    newRet.msg = "failed to validate token provider"
    => /\ conn = "none"
       /\ creatorCalls = 0
       /\ registerSends = 0
       /\ ~pscBuilt
       /\ peer = "none"
       /\ toHost = << >>
       /\ smFirst # RecvMsg(RegisterOfClient)
\* client.New has returned the token provider's failure
C32_Witness ==
    /\ newRet = NewError("failed to validate token provider", "GetToken")
    /\ conn = "none"

\* C39: after a failed client.New no connection is open: a connection that
\* was created is closed when the stream creator or the Register send
\* failed; after a successful New the connection is open, and it stays open
\* until Client.Close closes it.  While New runs the connection it made is
\* open.
C39_NewState ==
    /\ newRet.msg \in {"failed to create plugin stream",
                       "failed to create plugin stream client"}
       => conn = "closed"
    /\ newRet.msg \in {"failed to validate token provider",
                       "failed to connect to server"}
       => conn = "none"
    /\ (conn = "open" /\ newRet # NewNotReturned)
       => (newRet = NewNil /\ pscBuilt)
    /\ (conn = "open" /\ newRet = NewNotReturned)
       => newFrame.pc \in {"stream", "register", "return"}
\* the connection is closed by a New that returns an error, or else by
\* Client.Close, which changes nothing else
C39_CloseStep ==
    /\ (newRet = NewNotReturned /\ newRet' = NewNil) => conn' = "open"
    /\ (newRet = NewNotReturned /\ newRet' \notin {NewNotReturned, NewNil})
       => conn' # "open"
    /\ (conn = "open" /\ conn' # "open")
       => /\ conn' = "closed"
          /\ IF newRet = NewNotReturned
             THEN newRet' \notin {NewNotReturned, NewNil}
             ELSE UNCHANGED <<newRet, pscBuilt, toHost, toPlugin, ppc, task>>
C39_NoOpenConnectionOnFailure == []C39_NewState /\ [][C39_CloseStep]_vars
\* the Register send failed after the connection and the stream were made
C39_Witness ==
    /\ newRet.msg = "failed to create plugin stream client"
    /\ creatorCalls = 1
    /\ registerSends = 1
    /\ conn = "closed"


(***************************************************************************)
(* Part G: properties of the reads of the table.                           *)
(***************************************************************************)
\* C31: the four reads agree on one state of the table: the count is the
\* number of listed names, IsPluginConnected holds exactly for the listed
\* names, and GetPluginInfo is nil exactly for the names not listed and
\* otherwise carries the name asked for.
C31_ReadsAgree ==
    /\ ConnectionCount(activeStreams)
          = Cardinality(ListConnectedPlugins(activeStreams))
    /\ \A n \in PluginNames :
          /\ IsPluginConnected(activeStreams, n)
                <=> n \in ListConnectedPlugins(activeStreams)
          /\ GetPluginInfo(activeStreams, n, rclock).nil
                <=> n \notin ListConnectedPlugins(activeStreams)
          /\ ~GetPluginInfo(activeStreams, n, rclock).nil
                => GetPluginInfo(activeStreams, n, rclock).Name = n
\* a read changes nothing of the table, and returns what the table holds
C31_ReadStep ==
    qread' # qread
    => /\ UNCHANGED <<activeStreams, closeCount, createdAt, lastMessage>>
       /\ qread'.op = "ConnectionCount"
             => qread'.count = Cardinality(DOMAIN activeStreams)
       /\ qread'.op = "ListConnectedPlugins"
             => qread'.list = DOMAIN activeStreams
       /\ qread'.op = "IsPluginConnected"
             => (qread'.connected <=> qread'.name \in DOMAIN activeStreams)
       /\ qread'.op = "GetPluginInfo"
             => /\ qread'.info.nil <=> qread'.name \notin DOMAIN activeStreams
                /\ ~qread'.info.nil => qread'.info.Name = qread'.name
C31_PureReads == []C31_ReadsAgree /\ [][C31_ReadStep]_vars
\* the info of an attached plugin was read, some time after it attached,
\* while another name was absent
C31_Witness ==
    /\ qread.op = "GetPluginInfo"
    /\ ~qread.info.nil
    /\ qread.info.Uptime > 0
    /\ qread.info.Name = qread.name
    /\ ConnectionCount(activeStreams) = 2
    /\ \E n \in PluginNames : ~IsPluginConnected(activeStreams, n)


(***************************************************************************)
(* Part H: properties of registry.Manager.                                 *)
(***************************************************************************)
\* the calls made for a name, and the last of them
OpsOf(name) == {i \in 1..Len(regLog) : regLog[i].name = name}
LastOp(name) == regLog[CHOOSE i \in OpsOf(name) : \A j \in OpsOf(name) : j <= i]
\* the names whose last call is a Register
Registered ==
    {n \in ProviderNames : OpsOf(n) # {} /\ LastOp(n).op = "Register"}

\* C33: the Manager is the map the calls describe: Get returns the provider
\* of the last Register of the name unless an Unregister followed it, and
\* "plugin not found" otherwise; Count and List are the number and the set
\* of the names registered; a Register of a registered name leaves Count
\* as it is and an Unregister of an absent name leaves the map as it is;
\* Get, List and Count return just that and change nothing.
C33_MapState ==
    /\ ManagerList(plugins) = Registered
    /\ ManagerCount(plugins) = Cardinality(Registered)
    /\ \A n \in ProviderNames :
          ManagerGet(plugins, n) =
             IF n \in Registered
             THEN [provider |-> LastOp(n).provider, err |-> "nil"]
             ELSE [provider |-> "nil", err |-> "plugin not found"]
C33_MapStep ==
    /\ Len(regLog') > Len(regLog)
       => LET call == regLog'[Len(regLog')]
          IN  /\ (call.op = "Register" /\ call.name \in Registered)
                 => ManagerCount(plugins') = ManagerCount(plugins)
              /\ (call.op = "Unregister" /\ call.name \notin Registered)
                 => plugins' = plugins
    /\ mread' # mread
       => /\ UNCHANGED <<plugins, regLog>>
          /\ mread'.op = "Count" => mread'.count = Cardinality(Registered)
          /\ mread'.op = "List" => mread'.list = Registered
          /\ mread'.op = "Get"
                => IF mread'.name \in Registered
                   THEN /\ mread'.err = "nil"
                        /\ mread'.provider = LastOp(mread'.name).provider
                   ELSE mread'.err = "plugin not found"
C33_BehavesAsMap == []C33_MapState /\ [][C33_MapStep]_vars
\* a name was registered, overwritten with another provider and read, after
\* the other name was registered and unregistered
C33_Witness ==
    /\ mread.op = "Get"
    /\ mread.err = "nil"
    /\ \E i, j \in OpsOf(mread.name) :
          /\ i < j
          /\ regLog[i].op = "Register" /\ regLog[j].op = "Register"
          /\ regLog[i].provider # regLog[j].provider
          /\ mread.provider = regLog[j].provider
    /\ \E n \in ProviderNames \ Registered : OpsOf(n) # {}


(***************************************************************************)
(* Part I: properties of the Server's lifecycle.                           *)
(***************************************************************************)
\* an address shorter than 8 characters, or one whose scheme is neither
\* unix: nor tcp:
InvalidAddr(a) ==
    \/ Len(a) < 8
    \/ /\ SubSeq(a, 1, 5) # <<"u", "n", "i", "x", ":">>
       /\ SubSeq(a, 1, 4) # <<"t", "c", "p", ":">>

\* IsRunning() is false before Start, and false for ever on a Server built
\* with an invalid address, whose Start has returned the address error
C38_RunningState ==
    /\ wpc \in {"new", "idle"} => ~IsRunning
    /\ (wpc \notin {"new", "idle"} /\ InvalidAddr(addr))
       => /\ wpc = "returned"
          /\ wret = "invalid server address"
          /\ ~IsRunning
          /\ listener = "nil" /\ ~lisOpen
\* IsRunning() turns true only with the address parsed and the listener
\* made; it is false when a Stop returns; a Stop of a server that is not
\* running changes nothing; the Start of an invalid address returns in its
\* first step; a Start that leaves its select with its context cancelled
\* goes on to Stop, and returns the context's error with the server not
\* running
C38_RunningStep ==
    /\ (~isRunning /\ isRunning')
       => (parseAddr(addr).err = "nil" /\ listener = "lis" /\ lisOpen)
    /\ stopCalls' # stopCalls => ~isRunning'
    /\ (stopCalls' # stopCalls /\ ~isRunning)
       => UNCHANGED <<addr, isRunning, listener, grpcServer, mu, lisOpen,
                      grpcStopped, wpc, wret, werr, wctxDone, serve, errs>>
    /\ (wpc = "idle" /\ wpc' # "idle" /\ InvalidAddr(addr))
       => wpc' = "returned"
    /\ (wpc = "select" /\ wpc' # "select" /\ wctxDone)
       => (wpc' = "stop" /\ werr' = ErrContext)
    /\ (wpc = "returning" /\ wpc' = "returned")
       => (~isRunning' /\ wret' = werr)
\* C38: the lifecycle of the Server: the state and step properties above,
\* and a Start whose context is cancelled while it waits in its select
\* returns the context's error.
C38_Lifecycle ==
    /\ []C38_RunningState
    /\ [][C38_RunningStep]_vars
    /\ (wpc = "select" /\ wctxDone) ~> (wpc = "returned" /\ wret = ErrContext)


(***************************************************************************)
(* Part J: properties of PluginStreamAdapter.Run.                          *)
(***************************************************************************)
\* Run handles one message at a time: the handler was called once for each
\* message received, in order; the responses sent are the handler's
\* responses to the messages received, in order; and at the top of the loop
\* and in Recv every message received so far has its one response sent.
C40_RunState ==
    /\ Len(usent) <= Len(ucalls) /\ Len(ucalls) <= Len(urecvd)
    /\ Len(urecvd) <= Len(usent) + 1
    /\ ucalls = SubSeq(urecvd, 1, Len(ucalls))
    /\ \A i \in 1..Len(usent) : usent[i] = RunResponse(urecvd[i])
    /\ upc \in {"top", "recv"}
       => (Len(usent) = Len(urecvd) /\ Len(ucalls) = Len(urecvd))
    /\ uret = "handler error"
       => (Len(ucalls) = Len(urecvd) /\ Len(usent) = Len(urecvd) - 1)
\* Run returns nil when Recv returns io.EOF; a failed handler makes it
\* return an error with nothing sent; with its context cancelled the top of
\* the loop returns the context's error and nothing more is received.
C40_RunStep ==
    /\ (upc = "recv" /\ upc' # "recv" /\ Head(uin).kind = "EOF")
       => (upc' = "returned" /\ uret' = "nil")
    /\ (upc = "handle" /\ upc' = "returned")
       => (uret' = "handler error" /\ usent' = usent)
    /\ (upc = "top" /\ upc' # "top" /\ uctxDone)
       => /\ upc' = "returned" /\ uret' = ErrContext
          /\ UNCHANGED <<uin, urecvd, ucalls, usent>>
    /\ (upc = "returned") => UNCHANGED <<uret, uin, urecvd, ucalls, usent>>
\* C40: PluginStreamAdapter.Run processes the messages strictly one at a
\* time and in order, returns nil on io.EOF, returns an error without
\* sending when the handler fails, and returns the context's error at the
\* top of the loop once the context is cancelled, without another Recv.
C40_OneAtATime == []C40_RunState /\ [][C40_RunStep]_vars
\* two different messages were answered in order, and the handler failed on
\* a third
C40_Witness ==
    /\ Len(usent) = 2
    /\ usent[1] # usent[2]
    /\ uret = "handler error"
    /\ Len(urecvd) = 3

====
